---- MODULE Spec2Model ----
(***************************************************************************)
(* Workspace symbol index and resolver of the SCSS language features:     *)
(* alias resolution (utils/aliasedPath.ts), the scanner and its storage   *)
(* (class ScannerService, services/storage.ts) and the query providers    *)
(* (providers/goDefinition.ts, providers/links.ts, providers/completion). *)
(*                                                                         *)
(* Strings are sequences of tokens.  A token is an indivisible letter of  *)
(* the alphabet: "/" is the path separator, ".." and "." are the parent   *)
(* and current directory names, every other token is one or more ordinary *)
(* characters.  "startsWith", "replace", "endsWith" and the path functions *)
(* of Node work on these sequences as they work on characters.            *)
(***************************************************************************)
EXTENDS Integers, Sequences, FiniteSets, TLC

VARIABLES
    rImport,      \* resolveAliasedPath: argument fsPath
    rDocument,    \* resolveAliasedPath: argument documentPath
    rConfig,      \* resolveAliasedPath: argument associatedTsConfig
    rResult,      \* resolveAliasedPath: outcome of the call
    parents,      \* findFileInParents: the arguments of the call, the value of
                  \* its variable dir, the directories it has looked into and
                  \* its outcome
    parseChain,   \* parseTsConfig: the files the suspended call and its recursive
                  \* calls have been called on, in call order
    cwd,          \* process.cwd(), read by path.resolve and path.relative
    fs,           \* the file system: path -> Absent, Unreadable or the name of a text
    fsChanges,    \* number of file-system changes made so far
    settings,     \* ISettings handed to the ScannerService constructor
    scssDocuments,          \* StorageService._scssDocuments, in insertion order
    tsConfigs,              \* StorageService._tsConfigs
    tsConfigsAssociations,  \* StorageService._tsConfigsAssociations
    scanFiles,    \* scanScssFiles: the argument of the running or last call
    scanIterator, \* scanScssFiles: the Set it iterates, in insertion order
    scanIndex,    \* scanScssFiles: position of the next path of the iterator
    scanStatus,   \* scanScssFiles: "idle", "running", "done" or "failed" (rejected)
    scanLog,      \* the paths the running pass has visited, in order, and what
                  \* it did with each
    fsStable,     \* no file-system change since the pass began
    lastQuery,    \* the last query a provider answered: its arguments and its result
    configOps,    \* the calls of addTsConfigFile, updateTsConfigFile and
                  \* deleteTsConfigFile that are suspended at an await, in call order
    delivered,    \* the last batch of file events the watcher delivered, and the
                  \* storage as it was at the delivery
    lastCall      \* the last call of deleteTsConfigFile, updateTsConfigFile or clear
                  \* that ran from its beginning to its end: its arguments

resolveVars == <<rImport, rDocument, rConfig, rResult, parents, parseChain>>
storageVars == <<scssDocuments, tsConfigs, tsConfigsAssociations>>
scanVars == <<scanFiles, scanIterator, scanIndex, scanStatus, scanLog, fsStable>>
envVars == <<cwd, fs, fsChanges, settings>>
watcherVars == <<configOps, delivered, lastCall>>
vars == <<resolveVars, envVars, storageVars, scanVars, lastQuery, watcherVars>>

-----------------------------------------------------------------------------
(* Strings *)

Sep == "/"

Str1(t) == <<t>>

StartsWith(s, p) ==
    /\ Len(p) <= Len(s)
    /\ SubSeq(s, 1, Len(p)) = p

EndsWith(s, p) ==
    /\ Len(p) <= Len(s)
    /\ SubSeq(s, Len(s) - Len(p) + 1, Len(s)) = p

Drop(s, n) == SubSeq(s, n + 1, Len(s))

\* String.prototype.indexOf: the first position (1-based) where p occurs, 0 if none
IndexOf(s, p) ==
    LET hits == {i \in 1..(Len(s) - Len(p) + 1) : SubSeq(s, i, i + Len(p) - 1) = p}
    IN  IF hits = {} THEN 0 ELSE CHOOSE i \in hits : \A j \in hits : i <= j

\* String.prototype.replace(pattern: string, replacement: string): first occurrence only
StrReplace(s, p, r) ==
    LET i == IndexOf(s, p)
    IN  IF i = 0 THEN s
        ELSE SubSeq(s, 1, i - 1) \o r \o Drop(s, i + Len(p) - 1)

\* ToString(undefined), what replace() substitutes for a missing replacement
StrUndefined == <<"undefined">>

-----------------------------------------------------------------------------
(* Node's path module, POSIX flavour *)

IsAbsolute(p) == Len(p) > 0 /\ p[1] = Sep

RECURSIVE SplitSegs(_)
SplitSegs(s) ==
    LET i == IndexOf(s, <<Sep>>)
    IN  IF i = 0 THEN <<s>>
        ELSE <<SubSeq(s, 1, i - 1)>> \o SplitSegs(Drop(s, i))

RECURSIVE JoinSegs(_)
JoinSegs(segs) ==
    IF Len(segs) = 0 THEN <<>>
    ELSE IF Len(segs) = 1 THEN segs[1]
    ELSE segs[1] \o <<Sep>> \o JoinSegs(Tail(segs))

\* normalizeString: drops "" and ".", resolves ".." against the segments kept so far
RECURSIVE NormalizeSegs(_, _, _)
NormalizeSegs(segs, acc, allowAboveRoot) ==
    IF Len(segs) = 0 THEN acc
    ELSE LET seg == Head(segs)
             rest == Tail(segs)
         IN  IF seg = <<>> \/ seg = <<".">>
                THEN NormalizeSegs(rest, acc, allowAboveRoot)
             ELSE IF seg = <<"..">>
                THEN IF Len(acc) > 0 /\ acc[Len(acc)] # <<"..">>
                        THEN NormalizeSegs(rest, SubSeq(acc, 1, Len(acc) - 1), allowAboveRoot)
                     ELSE IF allowAboveRoot
                        THEN NormalizeSegs(rest, Append(acc, seg), allowAboveRoot)
                     ELSE NormalizeSegs(rest, acc, allowAboveRoot)
             ELSE NormalizeSegs(rest, Append(acc, seg), allowAboveRoot)

\* path.normalize
PathNormalize(p) ==
    IF Len(p) = 0 THEN <<".">>
    ELSE LET abs      == IsAbsolute(p)
             trailing == p[Len(p)] = Sep
             body     == JoinSegs(NormalizeSegs(SplitSegs(p), <<>>, ~abs))
         IN  IF Len(body) = 0
                THEN IF abs THEN <<Sep>>
                     ELSE IF trailing THEN <<".", Sep>> ELSE <<".">>
             ELSE (IF abs THEN <<Sep>> ELSE <<>>) \o body
                  \o (IF trailing THEN <<Sep>> ELSE <<>>)

\* path.resolve(...args): right to left until an absolute path is built, then cwd
RECURSIVE ResolveJoin(_, _)
ResolveJoin(args, acc) ==
    IF IsAbsolute(acc) THEN acc
    ELSE IF Len(args) = 0 THEN cwd \o <<Sep>> \o acc
    ELSE LET a == args[Len(args)]
             front == SubSeq(args, 1, Len(args) - 1)
         IN  IF Len(a) = 0 THEN ResolveJoin(front, acc)
             ELSE ResolveJoin(front, a \o <<Sep>> \o acc)

PathResolve(args) ==
    <<Sep>> \o JoinSegs(NormalizeSegs(SplitSegs(ResolveJoin(args, <<>>)), <<>>, FALSE))

\* path.dirname
RECURSIVE DirnameEnd(_, _, _)
DirnameEnd(p, i, matchedSlash) ==
    IF i < 2 THEN 0
    ELSE IF p[i] = Sep
        THEN IF ~matchedSlash THEN i ELSE DirnameEnd(p, i - 1, matchedSlash)
    ELSE DirnameEnd(p, i - 1, FALSE)

PathDirname(p) ==
    IF Len(p) = 0 THEN <<".">>
    ELSE LET end == DirnameEnd(p, Len(p), TRUE)
         IN  IF end = 0 THEN (IF IsAbsolute(p) THEN <<Sep>> ELSE <<".">>)
             ELSE SubSeq(p, 1, end - 1)

\* path.relative
RECURSIVE CommonLen(_, _)
CommonLen(a, b) ==
    IF Len(a) = 0 \/ Len(b) = 0 \/ Head(a) # Head(b) THEN 0
    ELSE 1 + CommonLen(Tail(a), Tail(b))

PathRelative(from, to) ==
    LET f == NormalizeSegs(SplitSegs(PathResolve(<<from>>)), <<>>, FALSE)
        t == NormalizeSegs(SplitSegs(PathResolve(<<to>>)), <<>>, FALSE)
        n == CommonLen(f, t)
        ups == [i \in 1..(Len(f) - n) |-> <<"..">>]
    IN  JoinSegs(ups \o Drop(t, n))

\* path.join(a, b)
PathJoin(a, b) ==
    IF Len(a) = 0 /\ Len(b) = 0 THEN <<".">>
    ELSE IF Len(a) = 0 THEN PathNormalize(b)
    ELSE IF Len(b) = 0 THEN PathNormalize(a)
    ELSE PathNormalize(a \o <<Sep>> \o b)

-----------------------------------------------------------------------------
(* utils/aliasedPath.ts *)

NotCalled == [kind |-> "none"]
Returned(v) == [kind |-> "value", value |-> v]

\* ITsConfig | undefined.  "paths" may itself be undefined (hasPaths = FALSE).
NoTsConfig == [present |-> FALSE]

TsConfig(filepath, hasPaths, paths) ==
    [present |-> TRUE, filepath |-> filepath, hasPaths |-> hasPaths, paths |-> paths]

PathShorthand(alias, paths) == [alias |-> alias, paths |-> paths]

\* A variant that keeps the last shorthand whose alias is a prefix of fsPath
RECURSIVE FindLastShorthand(_, _, _)
FindLastShorthand(shorthands, fsPath, i) ==
    IF i > Len(shorthands) THEN 0
    ELSE LET later == FindLastShorthand(shorthands, fsPath, i + 1)
         IN  IF later # 0 THEN later
             ELSE IF StartsWith(fsPath, shorthands[i].alias) THEN i
             ELSE 0

\* Array.prototype.find over the shorthands: index of the first whose alias
\* is a prefix of fsPath, 0 when there is none
RECURSIVE FindShorthand(_, _, _)
FindShorthand(shorthands, fsPath, i) ==
    IF i > Len(shorthands) THEN 0
    ELSE IF StartsWith(fsPath, shorthands[i].alias) THEN i
    ELSE FindShorthand(shorthands, fsPath, i + 1)

\* A variant whose fallback resolves against the document path itself, not
\* against its directory
resolveAgainstDocument(fsPath, documentPath, associatedTsConfig) ==
    LET matching ==
            IF associatedTsConfig.present /\ associatedTsConfig.hasPaths
                THEN FindShorthand(associatedTsConfig.paths, fsPath, 1)
            ELSE 0
    IN  IF ~associatedTsConfig.present \/ matching = 0
            THEN PathResolve(<<documentPath, fsPath>>)
        ELSE LET sh == associatedTsConfig.paths[matching]
                 replacement == IF Len(sh.paths) = 0 THEN StrUndefined ELSE sh.paths[1]
             IN  PathResolve(<<PathDirname(associatedTsConfig.filepath),
                               StrReplace(fsPath, sh.alias, replacement)>>)

resolveAliasedPath(fsPath, documentPath, associatedTsConfig) ==
    LET matching ==
            IF associatedTsConfig.present /\ associatedTsConfig.hasPaths
                THEN FindShorthand(associatedTsConfig.paths, fsPath, 1)
            ELSE 0
    IN  IF ~associatedTsConfig.present \/ matching = 0
            THEN PathResolve(<<PathDirname(documentPath), fsPath>>)
        ELSE LET sh == associatedTsConfig.paths[matching]
                 replacement == IF Len(sh.paths) = 0 THEN StrUndefined ELSE sh.paths[1]
                 inputFragmentAfterReplacement == StrReplace(fsPath, sh.alias, replacement)
             IN  PathResolve(<<PathDirname(associatedTsConfig.filepath),
                               inputFragmentAfterReplacement>>)

-----------------------------------------------------------------------------
(* Inputs of the alias resolver *)

MaxImportLen == 3
MaxAliases == 2

ImportAlphabet == {"@", "u", Sep, ".", ".."}

RECURSIVE StringsUpTo(_, _)
StringsUpTo(alphabet, n) ==
    IF n = 0 THEN {<<>>}
    ELSE LET shorter == StringsUpTo(alphabet, n - 1)
         IN  shorter \cup {Append(s, t) : s \in shorter, t \in alphabet}

ImportPaths == StringsUpTo(ImportAlphabet, MaxImportLen)

ShorthandPool ==
    { PathShorthand(<<"@", "u", Sep>>, << <<"x", Sep>> >>),
      PathShorthand(<<"@">>, << <<"y", Sep>>, <<"z", Sep>> >>),
      PathShorthand(<<"@", "u", Sep>>, <<>>),
      PathShorthand(<<>>, << <<"w", Sep>> >>),
      PathShorthand(<<"u">>, << <<Sep, "a", Sep>> >>) }

RECURSIVE SeqsUpTo(_, _)
SeqsUpTo(S, n) ==
    IF n = 0 THEN {<<>>}
    ELSE LET shorter == SeqsUpTo(S, n - 1)
         IN  shorter \cup {Append(s, t) : s \in shorter, t \in S}

TsConfigFiles == { <<Sep, "proj", Sep, "tsconfig.json">>,
                   <<Sep, "proj", Sep, "sub", Sep, "tsconfig.json">> }

ResolveConfigs ==
    {NoTsConfig}
    \cup {TsConfig(f, FALSE, <<>>) : f \in TsConfigFiles}
    \cup {TsConfig(f, TRUE, t) : f \in TsConfigFiles, t \in SeqsUpTo(ShorthandPool, MaxAliases)}

ResolveDocuments == { <<Sep, "proj", Sep, "src", Sep, "x", ".scss">>,
                      <<Sep, "proj", Sep, "sub", Sep, "y", ".scss">> }

WorkingDirs == { <<Sep>>, <<Sep, "proj">> }

-----------------------------------------------------------------------------
(* URIs (vscode-uri) and utils/fs.ts *)

FileScheme == <<"file:", Sep, Sep>>

\* percent-encoding of the characters URI.toString() escapes
EncodeToken(t) == IF t = "@" THEN "%40" ELSE IF t = "*" THEN "%2A" ELSE t
DecodeToken(t) == IF t = "%40" THEN "@" ELSE IF t = "%2A" THEN "*" ELSE t

\* URI.file(path).toString()
UriFile(p) == FileScheme \o [i \in 1..Len(p) |-> EncodeToken(p[i])]

\* URI.parse(uri).fsPath
UriFsPath(u) ==
    LET rest == Drop(u, Len(FileScheme))
    IN  [i \in 1..Len(rest) |-> DecodeToken(rest[i])]

uriToFsPath(uri) ==
    PathNormalize(IF StartsWith(uri, FileScheme) THEN UriFsPath(uri) ELSE uri)

fsPathToUri(pathname) == UriFile(PathNormalize(pathname))

isDescendant(file, dir) ==
    LET relative == PathRelative(dir, file)
    IN  /\ Len(relative) > 0
        /\ ~StartsWith(relative, <<"..">>)
        /\ ~IsAbsolute(relative)

-----------------------------------------------------------------------------
(* The workspace: its files and the texts they can hold *)

ProjDir == <<Sep, "proj">>
PathX == <<Sep, "proj", Sep, "src", Sep, "x", ".scss">>
PathY == <<Sep, "proj", Sep, "sub", Sep, "y", ".scss">>
PathM == <<Sep, "proj", Sep, "libs", Sep, "mixins", ".scss">>

ScssPaths == {PathX, PathY, PathM}

Absent == "absent"          \* fs.access fails
Unreadable == "unreadable"  \* fs.access succeeds, fs.readFile fails (a directory, no permission)

Position(line, character) == [line |-> line, character |-> character]

\* Statements of a text, one syntax node each.  "text" is the string literal of
\* an @use/@import without its quotes, "target" the link the language service
\* reports for it.
Stmt(type, name, line, character, text, target) ==
    [type |-> type, name |-> name, position |-> Position(line, character),
     text |-> text, target |-> target, top |-> TRUE]

\* the statement inside a rule set: no child of the style sheet node
Nested(stmt) == [stmt EXCEPT !.top = FALSE]

Use(line, text, target) == Stmt("Use", "", line, 0, text, target)
Import(line, text, target) == Stmt("Import", "", line, 0, text, target)
VariableDeclaration(name, line, character) ==
    Stmt("VariableDeclaration", name, line, character, <<>>, <<>>)
MixinDeclaration(name, line, character) ==
    Stmt("MixinDeclaration", name, line, character, <<>>, <<>>)
FunctionDeclaration(name, line, character) ==
    Stmt("FunctionDeclaration", name, line, character, <<>>, <<>>)
VariableReference(name, line, character) ==
    Stmt("VariableReference", name, line, character, <<>>, <<>>)
MixinReference(name, line, character) ==
    Stmt("MixinReference", name, line, character, <<>>, <<>>)
FunctionCall(name, line, character) ==
    Stmt("FunctionCall", name, line, character, <<>>, <<>>)

\* x.scss:  @use '@lib/mixins';
\*          @import '../sub/y';
\*          .a { color: $color; }
\*          @include m;
\*          $w: f(1);
TextX1 ==
    << Use(0, <<"@", "lib", Sep, "mixins">>,
           UriFile(<<Sep, "proj", Sep, "src", Sep, "@", "lib", Sep, "mixins">>)),
       Import(1, <<"..", Sep, "sub", Sep, "y">>, UriFile(PathY)),
       Nested(VariableReference("$color", 2, 12)),
       MixinReference("m", 3, 0),
       VariableDeclaration("$w", 4, 0),
       FunctionCall("f", 4, 4) >>

\* x.scss:  $color: blue;
\*          @include m;
\*          .a { color: $color; }
\*          @mixin n { }
TextX2 ==
    << VariableDeclaration("$color", 0, 0),
       MixinReference("m", 1, 0),
       Nested(VariableReference("$color", 2, 12)),
       MixinDeclaration("n", 3, 0) >>

\* y.scss:  @import '../src/x';
\*          @mixin m { }
\*          $color: red;
\*          @function f() { @return 1; }
TextY1 ==
    << Import(0, <<"..", Sep, "src", Sep, "x">>, UriFile(PathX)),
       MixinDeclaration("m", 1, 0),
       VariableDeclaration("$color", 2, 0),
       FunctionDeclaration("f", 3, 0) >>

\* y.scss:  @import '../libs/base.css';
\*          @use '../libs/mixins';
\*          .b { margin: 0; $color: green; }
\*          @include n;
\*          @import '../src/*';
TextY2 ==
    << Import(0, <<"..", Sep, "libs", Sep, "base", ".css">>,
              UriFile(<<Sep, "proj", Sep, "libs", Sep, "base", ".css">>)),
       Use(1, <<"..", Sep, "libs", Sep, "mixins">>, UriFile(PathM)),
       Nested(VariableDeclaration("$color", 2, 12)),
       MixinReference("n", 3, 0),
       Import(4, <<"..", Sep, "src", Sep, "*">>,
              UriFile(<<Sep, "proj", Sep, "src", Sep, "*">>)) >>

\* mixins.scss:  @mixin m { }
\*               $color: black;
\*               @function f() { @return 2; }
\*               $color: white;
TextM1 ==
    << MixinDeclaration("m", 0, 0),
       VariableDeclaration("$color", 1, 0),
       FunctionDeclaration("f", 2, 0),
       VariableDeclaration("$color", 3, 0) >>

\* x.scss:  @use '@lib/mixins';
\*          .a { @use '../sub/y'; }
\*          @import '@lib/mixins';
\*          @use '../sub/y';
TextX3 ==
    << Use(0, <<"@", "lib", Sep, "mixins">>,
           UriFile(<<Sep, "proj", Sep, "src", Sep, "@", "lib", Sep, "mixins">>)),
       Nested(Use(1, <<"..", Sep, "sub", Sep, "y">>, UriFile(PathY))),
       Import(2, <<"@", "lib", Sep, "mixins">>,
              UriFile(<<Sep, "proj", Sep, "src", Sep, "@", "lib", Sep, "mixins">>)),
       Use(3, <<"..", Sep, "sub", Sep, "y">>, UriFile(PathY)) >>

\* x.scss:  @use '../libs/mixins';
\*          @use '../sub/y';
\*          .a { color: $color; }
TextX4 ==
    << Use(0, <<"..", Sep, "libs", Sep, "mixins">>, UriFile(PathM)),
       Use(1, <<"..", Sep, "sub", Sep, "y">>, UriFile(PathY)),
       Nested(VariableReference("$color", 2, 12)) >>

TextNames == {"X1", "X2", "Y1", "Y2", "M1"}

TextOf(name) ==
    CASE name = "X1" -> TextX1
      [] name = "X2" -> TextX2
      [] name = "Y1" -> TextY1
      [] name = "Y2" -> TextY2
      [] name = "M1" -> TextM1
      [] name = "X3" -> TextX3
      [] name = "X4" -> TextX4

\* the texts a file can hold
TextsOf(p) ==
    IF p = PathX THEN {"X1", "X2"}
    ELSE IF p = PathY THEN {"Y1", "Y2"}
    ELSE {"M1"}

\* tsconfig.json files: the JSON they hold, "paths" in the order of Object.entries
ConfigRoot == <<Sep, "proj", Sep, "tsconfig.json">>
ConfigSub == <<Sep, "proj", Sep, "sub", Sep, "tsconfig.json">>

TsConfigPaths == {ConfigRoot, ConfigSub}

FsPaths == ScssPaths \cup TsConfigPaths

Json(valid, paths, extends) == [valid |-> valid, paths |-> paths, extends |-> extends]

\* /proj/tsconfig.json:  { "compilerOptions": { "paths": { "@lib/*": ["libs/"] } } }
ConfigTextLib ==
    Json(TRUE, << PathShorthand(<<"@", "lib", Sep, "*">>, << <<"libs", Sep>> >>) >>, <<>>)

\* /proj/sub/tsconfig.json:  { "extends": "../tsconfig.json",
\*                             "compilerOptions": { "paths": { "@lib/*": ["vendor/*"] } } }
ConfigTextSub ==
    Json(TRUE, << PathShorthand(<<"@", "lib", Sep, "*">>, << <<"vendor", Sep, "*">> >>) >>,
         <<"..", Sep, "tsconfig.json">>)

\* either tsconfig.json:  { "compilerOptions": { "paths": { "@lib/*": ["vendor/"] } } }
ConfigTextVendor ==
    Json(TRUE, << PathShorthand(<<"@", "lib", Sep, "*">>, << <<"vendor", Sep>> >>) >>, <<>>)

\* /proj/tsconfig.json:  { "compilerOptions": { "paths":      (JSON.parse throws)
ConfigTextBad == Json(FALSE, <<>>, <<>>)

\* /proj/tsconfig.json:  { "extends": "./tsconfig.json",
\*                         "compilerOptions": { "paths": { "@lib/*": ["libs/"] } } }
ConfigTextSelf ==
    Json(TRUE, << PathShorthand(<<"@", "lib", Sep, "*">>, << <<"libs", Sep>> >>) >>,
         <<".", Sep, "tsconfig.json">>)

\* /proj/tsconfig.json:  { "extends": "./sub/tsconfig.json" }
ConfigTextDown == Json(TRUE, <<>>, <<".", Sep, "sub", Sep, "tsconfig.json">>)

ConfigTextNames == {"CLib", "CSub", "CVendor", "CBad"}

ConfigTextOf(name) ==
    CASE name = "CLib" -> ConfigTextLib
      [] name = "CSub" -> ConfigTextSub
      [] name = "CVendor" -> ConfigTextVendor
      [] name = "CBad" -> ConfigTextBad
      [] name = "CSelf" -> ConfigTextSelf
      [] name = "CDown" -> ConfigTextDown

FileStates(p) ==
    IF p = ConfigRoot THEN {Absent, "CLib", "CVendor", "CBad"}
    ELSE IF p = ConfigSub THEN {Absent, "CSub", "CVendor"}
    ELSE {Absent} \cup TextsOf(p) \cup (IF p = PathY THEN {Unreadable} ELSE {})

FsState(p) == IF p \in DOMAIN fs THEN fs[p] ELSE Absent

\* fileExists: fs.access(filepath, F_OK)
fileExists(filepath) == FsState(filepath) # Absent

\* readFile: rejects when the file cannot be read
readFileFails(filepath) == FsState(filepath) \in {Absent, Unreadable}

-----------------------------------------------------------------------------
(* services/parser.ts: the symbol extractor *)

DynamicMarks == {"#", "{", "}", "*"}

\* reDynamicPath.test(target)
IsDynamicPath(target) == \E i \in 1..Len(target) : target[i] \in DynamicMarks

RECURSIVE convertLinksToImports(_)
convertLinksToImports(links) ==
    IF Len(links) = 0 THEN <<>>
    ELSE << [filepath |-> Head(links),
             dynamic |-> IsDynamicPath(Head(links)),
             css |-> EndsWith(Head(links), <<".css">>)] >>
         \o convertLinksToImports(Tail(links))

IsLinkStmt(s) == s.type \in {"Use", "Import"} /\ Len(s.target) > 0

\* findDocumentLinks: the targets of the language service's links, as file paths
RECURSIVE findDocumentLinks(_)
findDocumentLinks(text) ==
    IF Len(text) = 0 THEN <<>>
    ELSE (IF IsLinkStmt(Head(text)) THEN <<uriToFsPath(Head(text).target)>> ELSE <<>>)
         \o findDocumentLinks(Tail(text))

\* the entries of one kind among the language service's document symbols
RECURSIVE SymbolsOfType(_, _)
SymbolsOfType(text, type) ==
    IF Len(text) = 0 THEN <<>>
    ELSE (IF Head(text).type = type
             THEN << [name |-> Head(text).name, position |-> Head(text).position] >>
          ELSE <<>>)
         \o SymbolsOfType(Tail(text), type)

findDocumentSymbols(text) ==
    [variables |-> SymbolsOfType(text, "VariableDeclaration"),
     mixins |-> SymbolsOfType(text, "MixinDeclaration"),
     functions |-> SymbolsOfType(text, "FunctionDeclaration"),
     imports |-> convertLinksToImports(findDocumentLinks(text))]

\* parseDocument(document).symbols for the document at uri holding text
parseDocumentSymbols(uri, text) ==
    LET documentPath == uriToFsPath(uri)
        found == findDocumentSymbols(text)
    IN  [document |-> documentPath, filepath |-> documentPath,
         variables |-> found.variables, mixins |-> found.mixins,
         functions |-> found.functions, imports |-> found.imports]

-----------------------------------------------------------------------------
(* services/storage.ts: Map operations on a sequence of <<key, value>> entries *)

RECURSIVE StorageIndex(_, _)
StorageIndex(docs, key) ==
    IF Len(docs) = 0 THEN 0
    ELSE IF docs[Len(docs)].key = key THEN Len(docs)
    ELSE StorageIndex(SubSeq(docs, 1, Len(docs) - 1), key)

StorageHas(docs, key) == StorageIndex(docs, key) # 0

StorageGet(docs, key) == docs[StorageIndex(docs, key)].value

\* A variant of Map.set that adds an entry without looking for the key
StorageSetAppend(docs, key, value) == Append(docs, [key |-> key, value |-> value])

StorageSet(docs, key, value) ==
    LET i == StorageIndex(docs, key)
    IN  IF i = 0 THEN Append(docs, [key |-> key, value |-> value])
        ELSE [docs EXCEPT ![i] = [key |-> key, value |-> value]]

\* A variant of delete that leaves the Map as it is
StorageKeep(docs, key) == docs

\* A variant of delete that empties the Map
StorageDeleteAll(docs, key) == <<>>

StorageDelete(docs, key) ==
    LET i == StorageIndex(docs, key)
    IN  IF i = 0 THEN docs
        ELSE SubSeq(docs, 1, i - 1) \o SubSeq(docs, i + 1, Len(docs))

StorageKeys(docs) == [i \in 1..Len(docs) |-> docs[i].key]

StorageValues(docs) == [i \in 1..Len(docs) |-> docs[i].value]

-----------------------------------------------------------------------------
(* ScannerService: scanScssFiles *)

MaxScanFiles == 2
MaxFsChanges == 1

InSeq(s, x) == \E i \in 1..Len(s) : s[i] = x

\* Set.prototype.add, the Set kept in insertion order
SetAdd(s, x) == IF InSeq(s, x) THEN s ELSE Append(s, x)

\* new Set(files)
RECURSIVE SetOf(_)
SetOf(files) ==
    IF Len(files) = 0 THEN <<>>
    ELSE SetAdd(SetOf(SubSeq(files, 1, Len(files) - 1)), files[Len(files)])

\* A variant that follows the dynamic and the css imports instead of the others
RECURSIVE AddOtherImports(_, _)
AddOtherImports(iterator, imports) ==
    IF Len(imports) = 0 THEN iterator
    ELSE LET symbol == Head(imports)
         IN  IF symbol.dynamic \/ symbol.css
                THEN AddOtherImports(SetAdd(iterator, symbol.filepath), Tail(imports))
             ELSE AddOtherImports(iterator, Tail(imports))

\* A variant that adds every import, dynamic and css ones too
RECURSIVE AddEveryImport(_, _)
AddEveryImport(iterator, imports) ==
    IF Len(imports) = 0 THEN iterator
    ELSE AddEveryImport(SetAdd(iterator, Head(imports).filepath), Tail(imports))

\* the iterator after the static imports of a scanned document have been added
RECURSIVE AddImports(_, _)
AddImports(iterator, imports) ==
    IF Len(imports) = 0 THEN iterator
    ELSE LET symbol == Head(imports)
         IN  IF symbol.dynamic \/ symbol.css
                THEN AddImports(iterator, Tail(imports))
             ELSE AddImports(SetAdd(iterator, symbol.filepath), Tail(imports))

\* the lists of up to MaxScanFiles files, and a list that names a file twice
ScanRequests ==
    {files \in SeqsUpTo(ScssPaths, MaxScanFiles) :
        Len(files) > 0 /\ \A i, j \in 1..Len(files) : files[i] = files[j] => i = j}
    \cup {<<PathX, PathX>>}

\* scanScssFiles(files) is called: the initial scan of the workspace, or the
\* watcher's created/changed/deleted events for these files
\* (a pass begins when the pass before it has ended)
ScanStart(files) ==
    /\ scanStatus # "running"
    /\ scanFiles' = files
    /\ scanIterator' = SetOf(files)
    /\ scanIndex' = 1
    /\ scanStatus' = "running"
    /\ scanLog' = <<>>
    /\ fsStable' = TRUE
    /\ UNCHANGED <<resolveVars, envVars, storageVars, lastQuery, watcherVars>>

ScanAdvance(iterator) ==
    /\ scanIterator' = iterator
    /\ scanIndex' = scanIndex + 1
    /\ scanStatus' = IF scanIndex + 1 > Len(iterator) THEN "done" ELSE "running"

Visit(filepath, outcome) == [filepath |-> filepath, outcome |-> outcome]

\* one iteration of the loop over the iterator
ScanStep ==
    /\ scanStatus = "running"
    /\ LET filepath == PathNormalize(scanIterator[scanIndex])
           uri == UriFile(filepath)
           had == StorageHas(scssDocuments, uri)
       IN  /\ scanLog' =
                 Append(scanLog,
                        Visit(filepath,
                              IF ~fileExists(filepath)
                                 THEN (IF had THEN "removed" ELSE "missing")
                              ELSE IF readFileFails(filepath) THEN "rejected"
                              ELSE IF had THEN "replaced" ELSE "added"))
           /\ IF ~fileExists(filepath)
                 THEN /\ scssDocuments' = StorageDelete(scssDocuments, uri)
                      /\ ScanAdvance(scanIterator)
              ELSE IF readFileFails(filepath)
                 THEN /\ scanStatus' = "failed"
                      /\ UNCHANGED <<scssDocuments, scanIterator, scanIndex>>
              ELSE LET symbols == parseDocumentSymbols(uri, TextOf(FsState(filepath)))
                       storageValue == [symbols EXCEPT !.filepath = filepath]
                   IN  /\ scssDocuments' = StorageSet(scssDocuments, uri, storageValue)
                       /\ ScanAdvance(IF settings.scanImportedFiles
                                         THEN AddImports(scanIterator, symbols.imports)
                                      ELSE scanIterator)
    /\ UNCHANGED <<resolveVars, envVars, tsConfigs, tsConfigsAssociations,
                   scanFiles, fsStable, lastQuery, watcherVars>>

\* scanScssFiles run from the path at position index to its end on a file
\* system that does not change under it: the Index it leaves, and whether the
\* call was rejected
RECURSIVE scanScssFilesOn(_, _, _, _)
scanScssFilesOn(docs, iterator, index, scanImportedFiles) ==
    IF index > Len(iterator) THEN [scssDocuments |-> docs, rejected |-> FALSE]
    ELSE LET filepath == PathNormalize(iterator[index])
             uri == UriFile(filepath)
         IN  IF ~fileExists(filepath)
                THEN scanScssFilesOn(StorageDelete(docs, uri), iterator, index + 1,
                                     scanImportedFiles)
             ELSE IF readFileFails(filepath)
                THEN [scssDocuments |-> docs, rejected |-> TRUE]
             ELSE LET symbols == parseDocumentSymbols(uri, TextOf(FsState(filepath)))
                      storageValue == [symbols EXCEPT !.filepath = filepath]
                  IN  scanScssFilesOn(StorageSet(docs, uri, storageValue),
                                      IF scanImportedFiles
                                         THEN AddImports(iterator, symbols.imports)
                                      ELSE iterator,
                                      index + 1, scanImportedFiles)

-----------------------------------------------------------------------------
(* The environment: files are created, changed and deleted *)

FsChange(p, state) ==
    /\ fsChanges < MaxFsChanges
    /\ state # fs[p]
    /\ fs' = [fs EXCEPT ![p] = state]
    /\ fsChanges' = fsChanges + 1
    /\ fsStable' = FALSE
    /\ UNCHANGED <<resolveVars, cwd, settings, storageVars,
                   scanFiles, scanIterator, scanIndex, scanStatus, scanLog, lastQuery, watcherVars>>

-----------------------------------------------------------------------------
(* services/parser.ts: parseTsConfig *)

MaxExtends == 3

Raised == [kind |-> "raise"]
Diverges == [kind |-> "diverges"]

\* s.replace(/\*$/, '')
StripStar(s) ==
    IF Len(s) > 0 /\ s[Len(s)] = "*" THEN SubSeq(s, 1, Len(s) - 1) ELSE s

StripShorthand(sh) ==
    PathShorthand(StripStar(sh.alias), [i \in 1..Len(sh.paths) |-> StripStar(sh.paths[i])])

\* A variant that reads the table of ConfigTextLib out of every file
parseTsConfigAsLib(filepath, fuel) ==
    Returned(TsConfig(filepath, TRUE, <<StripShorthand(ConfigTextLib.paths[1])>>))

\* A variant that puts the entries of the extended config before the own ones
parseTsConfigExtensionFirst(filepath, fuel) ==
    IF readFileFails(filepath) THEN Raised
    ELSE LET json == ConfigTextOf(FsState(filepath))
             own == [i \in 1..Len(json.paths) |-> StripShorthand(json.paths[i])]
             extensionPath == PathJoin(PathDirname(filepath), json.extends)
         IN  IF ~json.valid THEN Returned(TsConfig(filepath, FALSE, <<>>))
             ELSE IF Len(json.extends) = 0 THEN Returned(TsConfig(filepath, TRUE, own))
             ELSE IF readFileFails(extensionPath)
                THEN Returned(TsConfig(filepath, FALSE, <<>>))
             ELSE LET extension == ConfigTextOf(FsState(extensionPath))
                  IN  IF ~extension.valid THEN Returned(TsConfig(filepath, TRUE, own))
                      ELSE Returned(TsConfig(filepath, TRUE,
                               [i \in 1..Len(extension.paths) |->
                                   StripShorthand(extension.paths[i])] \o own))

\* parseTsConfig(filepath); fuel counts the configs an extends chain may still visit
RECURSIVE parseTsConfig(_, _)
parseTsConfig(filepath, fuel) ==
    IF readFileFails(filepath) THEN Raised
    ELSE IF fuel = 0 THEN Diverges
    ELSE LET json == ConfigTextOf(FsState(filepath))
             own == [i \in 1..Len(json.paths) |-> StripShorthand(json.paths[i])]
         IN  IF ~json.valid THEN Returned(TsConfig(filepath, FALSE, <<>>))
             ELSE IF Len(json.extends) > 0 /\ json.extends[1] \in {".", ".."}
                THEN LET extensionPath == PathJoin(PathDirname(filepath), json.extends)
                         extension == parseTsConfig(extensionPath, fuel - 1)
                     IN  IF extension = Diverges THEN Diverges
                         ELSE IF extension = Raised
                            THEN Returned(TsConfig(filepath, FALSE, <<>>))
                         ELSE IF extension.value.hasPaths
                            THEN Returned(TsConfig(filepath, TRUE,
                                                   own \o extension.value.paths))
                         ELSE Returned(TsConfig(filepath, TRUE, own))
             ELSE Returned(TsConfig(filepath, TRUE, own))

-----------------------------------------------------------------------------
(* services/storage.ts: the configs and their associations *)

\* getAssociatedTsConfig(scssUri) on the Maps _tsConfigs and _tsConfigsAssociations
getAssociatedTsConfig(configs, associations, scssUri) ==
    IF StorageHas(associations, scssUri)
          /\ StorageHas(configs, StorageGet(associations, scssUri))
       THEN StorageGet(configs, StorageGet(associations, scssUri))
    ELSE NoTsConfig

\* the three Maps of the StorageService
StorageOf(docs, configs, associations) ==
    [scssDocuments |-> docs, tsConfigs |-> configs, tsConfigsAssociations |-> associations]

Storage == StorageOf(scssDocuments, tsConfigs, tsConfigsAssociations)

-----------------------------------------------------------------------------
(* ScannerService: addTsConfigFile *)

\* the associations after the loop over storage.keys() has associated the
\* descendants of dir with tsConfigUri
RECURSIVE AssociateDescendants(_, _, _, _)
AssociateDescendants(assoc, keys, dir, tsConfigUri) ==
    IF Len(keys) = 0 THEN assoc
    ELSE AssociateDescendants(
            IF isDescendant(Head(keys), dir)
               THEN StorageSet(assoc, Head(keys), tsConfigUri)
            ELSE assoc,
            Tail(keys), dir, tsConfigUri)

\* the storage after the body of addTsConfigFile has run on it (the Index is
\* read, not written); a rejection of parseTsConfig leaves it as it was
addTsConfigFileOn(storage, tsConfigPath) ==
    LET parsed == parseTsConfig(tsConfigPath, MaxExtends)
        tsConfigUri == fsPathToUri(tsConfigPath)
    IN  IF parsed.kind # "value" THEN storage
        ELSE [storage EXCEPT
                 !.tsConfigs = StorageSet(@, tsConfigUri, parsed.value),
                 !.tsConfigsAssociations =
                     AssociateDescendants(@, StorageKeys(storage.scssDocuments),
                                          PathDirname(tsConfigPath), tsConfigUri)]

addTsConfigFile(tsConfigPath) ==
    LET after == addTsConfigFileOn(Storage, tsConfigPath)
    IN  /\ parseTsConfig(tsConfigPath, MaxExtends).kind = "value"
        /\ tsConfigs' = after.tsConfigs
        /\ tsConfigsAssociations' = after.tsConfigsAssociations
        /\ UNCHANGED <<resolveVars, envVars, scssDocuments, scanVars, lastQuery, watcherVars>>

-----------------------------------------------------------------------------
(* utils/fs.ts: findFileInParents *)

\* the loop "while (dir !== limit)": the path found, <<>> for undefined, or no
\* return at all when dir has reached a directory that is its own parent
RECURSIVE FindUpwards(_, _, _)
FindUpwards(filename, dir, limit) ==
    IF dir = limit THEN Returned(<<>>)
    ELSE IF fileExists(PathJoin(dir, filename)) THEN Returned(PathJoin(dir, filename))
    ELSE IF PathDirname(dir) = dir THEN Diverges
    ELSE FindUpwards(filename, PathDirname(dir), limit)

findFileInParents(filename, dir, limit) ==
    IF ~isDescendant(dir, limit) \/ isDescendant(limit, dir) THEN Returned(<<>>)
    ELSE FindUpwards(filename, dir, limit)

\* the call as the steps of its loop: start is the argument dir, dir the
\* variable the loop reassigns, inspected the directories whose file it tested
Running == [kind |-> "running"]

Find(filename, start, limit, dir, inspected, outcome) ==
    [filename |-> filename, start |-> start, limit |-> limit, dir |-> dir,
     inspected |-> inspected, outcome |-> outcome]

NoFind == Find(<<>>, <<>>, <<>>, <<>>, {}, NotCalled)

\* the call up to its loop: the early return
findFileInParentsBegin(filename, dir, limit) ==
    /\ parents.outcome = NotCalled
    /\ parents' = Find(filename, dir, limit, dir, {},
                       IF ~isDescendant(dir, limit) \/ isDescendant(limit, dir)
                          THEN Returned(<<>>)
                       ELSE Running)
    /\ UNCHANGED <<rImport, rDocument, rConfig, rResult, parseChain, envVars, storageVars,
                   scanVars, lastQuery, watcherVars>>

\* one test of "while (dir !== limit)" and, when it passes, one run of the body
findFileInParentsLoop ==
    /\ parents.outcome = Running
    /\ parents' =
          IF parents.dir = parents.limit THEN [parents EXCEPT !.outcome = Returned(<<>>)]
          ELSE LET filepath == PathJoin(parents.dir, parents.filename)
               IN  IF fileExists(filepath)
                      THEN [parents EXCEPT !.inspected = @ \cup {parents.dir},
                                           !.outcome = Returned(filepath)]
                   ELSE [parents EXCEPT !.inspected = @ \cup {parents.dir},
                                        !.dir = PathDirname(parents.dir)]
    /\ UNCHANGED <<rImport, rDocument, rConfig, rResult, parseChain, envVars, storageVars,
                   scanVars, lastQuery, watcherVars>>

-----------------------------------------------------------------------------
(* ScannerService: deleteTsConfigFile, updateTsConfigFile; StorageService.clear *)

TsConfigName == <<"tsconfig.json">>

\* A variant of the loop of deleteTsConfigFile that desociates every document
DesociateAll(assoc, keys, tsConfigPath, newTsConfigUri) == <<>>

\* the associations after the loop of deleteTsConfigFile over storage.keys();
\* newTsConfigUri = <<>> stands for undefined
RECURSIVE ReassociateDescendants(_, _, _, _)
ReassociateDescendants(assoc, keys, tsConfigPath, newTsConfigUri) ==
    IF Len(keys) = 0 THEN assoc
    ELSE ReassociateDescendants(
            IF isDescendant(Head(keys), tsConfigPath)
               THEN (IF Len(newTsConfigUri) > 0
                        THEN StorageSet(assoc, Head(keys), newTsConfigUri)
                     ELSE StorageDelete(assoc, Head(keys)))
            ELSE assoc,
            Tail(keys), tsConfigPath, newTsConfigUri)

\* deleteTsConfigFile up to its await: the config leaves the registry
deleteTsConfigFileBegin(storage, tsConfigPath) ==
    [storage EXCEPT !.tsConfigs = StorageDelete(@, fsPathToUri(tsConfigPath))]

\* deleteTsConfigFile from its await on: findFileInParents and the loop
deleteTsConfigFileEnd(storage, tsConfigPath, workspaceDir) ==
    LET newTsConfigPath ==
            findFileInParents(TsConfigName, PathDirname(PathDirname(tsConfigPath)),
                              workspaceDir)
        newTsConfigUri ==
            IF Len(newTsConfigPath.value) > 0 THEN fsPathToUri(newTsConfigPath.value)
            ELSE <<>>
    IN  [storage EXCEPT
            !.tsConfigsAssociations =
                ReassociateDescendants(@, StorageKeys(storage.scssDocuments),
                                       tsConfigPath, newTsConfigUri)]

\* whether deleteTsConfigFile returns: it raises nowhere, and it does not
\* return when findFileInParents does not
deleteTsConfigFileReturns(tsConfigPath, workspaceDir) ==
    findFileInParents(TsConfigName, PathDirname(PathDirname(tsConfigPath)),
                      workspaceDir).kind = "value"

deleteTsConfigFileOn(storage, tsConfigPath, workspaceDir) ==
    deleteTsConfigFileEnd(deleteTsConfigFileBegin(storage, tsConfigPath),
                          tsConfigPath, workspaceDir)

\* a finished call: its arguments
Call(op, path, workspaceDir) == [op |-> op, path |-> path, workspaceDir |-> workspaceDir]

NoCall == Call("none", <<>>, <<>>)

deleteTsConfigFile(tsConfigPath, workspaceDir) ==
    LET after == deleteTsConfigFileOn(Storage, tsConfigPath, workspaceDir)
    IN  /\ deleteTsConfigFileReturns(tsConfigPath, workspaceDir)
        /\ tsConfigs' = after.tsConfigs
        /\ tsConfigsAssociations' = after.tsConfigsAssociations
        /\ lastCall' = Call("delete", tsConfigPath, workspaceDir)
        /\ UNCHANGED <<resolveVars, envVars, scssDocuments, scanVars, lastQuery,
                       configOps, delivered>>

\* A variant of updateTsConfigFile that registers the config anew
updateByAdding(storage, tsConfigPath) == addTsConfigFileOn(storage, tsConfigPath)

\* the storage after the body of updateTsConfigFile has run on it; a rejection
\* of parseTsConfig leaves it as it was
updateTsConfigFileOn(storage, tsConfigPath) ==
    LET newTsConfig == parseTsConfig(tsConfigPath, MaxExtends)
        tsConfigUri == fsPathToUri(tsConfigPath)
    IN  IF newTsConfig.kind # "value" THEN storage
        ELSE IF ~StorageHas(storage.tsConfigs, tsConfigUri) THEN storage
        ELSE LET oldTsConfig == StorageGet(storage.tsConfigs, tsConfigUri)
             IN  [storage EXCEPT
                     !.tsConfigs =
                         StorageSet(@, tsConfigUri,
                                    [oldTsConfig EXCEPT
                                        !.hasPaths = newTsConfig.value.hasPaths,
                                        !.paths = newTsConfig.value.paths])]

updateTsConfigFile(tsConfigPath) ==
    LET after == updateTsConfigFileOn(Storage, tsConfigPath)
    IN  /\ parseTsConfig(tsConfigPath, MaxExtends).kind = "value"
        /\ tsConfigs' = after.tsConfigs
        /\ tsConfigsAssociations' = after.tsConfigsAssociations
        /\ lastCall' = Call("update", tsConfigPath, <<>>)
        /\ UNCHANGED <<resolveVars, envVars, scssDocuments, scanVars, lastQuery,
                       configOps, delivered>>

\* StorageService.clear()
clear ==
    /\ scssDocuments' = <<>>
    /\ tsConfigs' = <<>>
    /\ lastCall' = Call("clear", <<>>, <<>>)
    /\ UNCHANGED <<resolveVars, envVars, tsConfigsAssociations, scanVars, lastQuery,
                   configOps, delivered>>

-----------------------------------------------------------------------------
(* server.ts: connection.onDidChangeWatchedFiles *)

MaxEvents == 2
MaxPending == 2

\* FileEvent; type is FileChangeType
FileEvent(uri, type) == [uri |-> uri, type |-> type]

\* path.basename(file.uri) === 'tsconfig.json'
IsTsConfigChange(file) == file.uri[Len(file.uri)] = "tsconfig.json"

\* path.extname(file.uri) === '.scss'
IsScssChange(file) == file.uri[Len(file.uri)] = ".scss"

\* the workspaceRoot of the server: workspaceFolders[0].uri
workspaceRoot == UriFile(ProjDir)

\* a call of the ScannerService that is suspended at its first await
ConfigOp(op, tsConfigPath) == [op |-> op, tsConfigPath |-> tsConfigPath]

\* the loop over tsConfigChanges, each call run up to its first await: the
\* storage it leaves and the calls it has started, in order
RECURSIVE StartConfigOps(_, _, _)
StartConfigOps(storage, ops, tsConfigChanges) ==
    IF Len(tsConfigChanges) = 0 THEN [storage |-> storage, ops |-> ops]
    ELSE LET tsConfigChange == Head(tsConfigChanges)
             tsConfigPath == uriToFsPath(tsConfigChange.uri)
         IN  IF tsConfigChange.type = "Created"
                THEN StartConfigOps(storage, Append(ops, ConfigOp("add", tsConfigPath)),
                                    Tail(tsConfigChanges))
             ELSE IF tsConfigChange.type = "Changed"
                THEN StartConfigOps(storage, Append(ops, ConfigOp("update", tsConfigPath)),
                                    Tail(tsConfigChanges))
             ELSE StartConfigOps(deleteTsConfigFileBegin(storage, uriToFsPath(tsConfigPath)),
                                 Append(ops, ConfigOp("delete", uriToFsPath(tsConfigPath))),
                                 Tail(tsConfigChanges))

Batch(changes, storage, quiet) ==
    [kind |-> "batch", changes |-> changes, storage |-> storage, quiet |-> quiet]

\* the handler, up to the await of each call it makes: the config calls are
\* started and not awaited, then scanScssFiles is started (in this model a
\* batch arrives when no pass is running and at most MaxPending config calls
\* are suspended)
onDidChangeWatchedFiles(changes) ==
    LET tsConfigChanges == SelectSeq(changes, IsTsConfigChange)
        scssChanges == SelectSeq(changes, IsScssChange)
        started == StartConfigOps(Storage, configOps, tsConfigChanges)
        files == [i \in 1..Len(scssChanges) |-> uriToFsPath(scssChanges[i].uri)]
    IN  /\ scanStatus # "running"
        /\ Len(configOps) + Len(tsConfigChanges) <= MaxPending
        /\ tsConfigs' = started.storage.tsConfigs
        /\ configOps' = started.ops
        /\ scanFiles' = files
        /\ scanIterator' = SetOf(files)
        /\ scanIndex' = 1
        /\ scanStatus' = IF Len(files) = 0 THEN "done" ELSE "running"
        /\ scanLog' = <<>>
        /\ fsStable' = TRUE
        /\ delivered' = Batch(changes, Storage,
                              configOps = <<>> /\ scanStatus # "running")
        /\ UNCHANGED <<resolveVars, envVars, scssDocuments, tsConfigsAssociations,
                       lastQuery, lastCall>>

\* the storage after the suspended call op has run from its await to its end
ConfigOpEnd(storage, op) ==
    IF op.op = "add" THEN addTsConfigFileOn(storage, op.tsConfigPath)
    ELSE IF op.op = "update" THEN updateTsConfigFileOn(storage, op.tsConfigPath)
    ELSE deleteTsConfigFileEnd(storage, op.tsConfigPath, workspaceRoot)

\* whether the suspended call is ever resumed: its file reads end
ConfigOpReturns(op) ==
    IF op.op = "delete" THEN deleteTsConfigFileReturns(op.tsConfigPath, workspaceRoot)
    ELSE parseTsConfig(op.tsConfigPath, MaxExtends) # Diverges

\* the i-th suspended call is resumed and runs to its end; the reads of the
\* calls end in any order
configOpResume(i) ==
    LET op == configOps[i]
        after == ConfigOpEnd(Storage, op)
    IN  /\ ConfigOpReturns(op)
        /\ tsConfigs' = after.tsConfigs
        /\ tsConfigsAssociations' = after.tsConfigsAssociations
        /\ configOps' = SubSeq(configOps, 1, i - 1) \o SubSeq(configOps, i + 1, Len(configOps))
        /\ UNCHANGED <<resolveVars, envVars, scssDocuments, scanVars, lastQuery,
                       delivered, lastCall>>

\* the file the call of parseTsConfig on filepath calls itself on, <<>> when it
\* makes no recursive call: the read fails, JSON.parse throws, or "extends"
\* is missing or does not start with "."
ExtensionPathOf(filepath) ==
    IF readFileFails(filepath) THEN <<>>
    ELSE LET json == ConfigTextOf(FsState(filepath))
         IN  IF json.valid /\ Len(json.extends) > 0 /\ json.extends[1] \in {".", ".."}
                THEN PathJoin(PathDirname(filepath), json.extends)
             ELSE <<>>

\* addTsConfigFile or updateTsConfigFile is called and is suspended at
\* "await parseTsConfig(tsConfigPath)"
configCallBegin(op, tsConfigPath) ==
    /\ configOps = <<>>
    /\ configOps' = <<ConfigOp(op, tsConfigPath)>>
    /\ parseChain' = <<tsConfigPath>>
    /\ UNCHANGED <<rImport, rDocument, rConfig, rResult, parents, envVars, storageVars,
                   scanVars, lastQuery, delivered, lastCall>>

\* the innermost call of parseTsConfig has read its file and calls itself on
\* the extended config (the model follows a chain for MaxExtends + 1 files)
parseTsConfigExtends ==
    /\ configOps # <<>>
    /\ Len(parseChain) <= MaxExtends
    /\ ExtensionPathOf(parseChain[Len(parseChain)]) # <<>>
    /\ parseChain' = Append(parseChain, ExtensionPathOf(parseChain[Len(parseChain)]))
    /\ UNCHANGED <<rImport, rDocument, rConfig, rResult, parents, envVars, storageVars,
                   scanVars, lastQuery, watcherVars>>

\* the innermost call makes no recursive call: every call of the chain
\* returns, and the suspended operation runs to its end
configCallEnd ==
    LET after == ConfigOpEnd(Storage, configOps[1])
    IN  /\ configOps # <<>>
        /\ ExtensionPathOf(parseChain[Len(parseChain)]) = <<>>
        /\ tsConfigs' = after.tsConfigs
        /\ tsConfigsAssociations' = after.tsConfigsAssociations
        /\ configOps' = <<>>
        /\ parseChain' = <<>>
        /\ UNCHANGED <<rImport, rDocument, rConfig, rResult, parents, envVars,
                       scssDocuments, scanVars, lastQuery, delivered, lastCall>>

-----------------------------------------------------------------------------
(* utils/symbols.ts *)

\* A variant that keeps the table of the current document among the sources
getEverySymbols(values, current) == values

RECURSIVE getSymbolsRelatedToDocument(_, _)
getSymbolsRelatedToDocument(values, current) ==
    IF Len(values) = 0 THEN <<>>
    ELSE (IF Head(values).document # current \/ Head(values).filepath # current
             THEN <<Head(values)>>
          ELSE <<>>)
         \o getSymbolsRelatedToDocument(Tail(values), current)

-----------------------------------------------------------------------------
(* The syntax tree: the node under the cursor and its ancestors *)

NullNode == [type |-> "null"]

Node(type, name, position, ancestors) ==
    [type |-> type, name |-> name, position |-> position, ancestors |-> ancestors]

Ancestor(type, name, position) == [type |-> type, name |-> name, position |-> position]

StylesheetNode == Ancestor("Stylesheet", "", Position(0, 0))

\* getParent()
getParent(node) ==
    IF Len(node.ancestors) = 0 THEN NullNode
    ELSE LET a == Head(node.ancestors)
         IN  Node(a.type, a.name, a.position, Tail(node.ancestors))

\* getNodeAtOffset with the cursor on the name of the statement
NodeAtStmt(stmt) ==
    LET inside == IF stmt.top THEN <<StylesheetNode>>
                  ELSE << Ancestor("Declarations", "", stmt.position),
                          Ancestor("Ruleset", "", stmt.position), StylesheetNode >>
    IN  CASE stmt.type = "VariableReference" ->
               Node("VariableName", stmt.name, stmt.position,
                    << Ancestor("Term", "", stmt.position),
                       Ancestor("Expression", "", stmt.position) >> \o inside)
          [] stmt.type = "VariableDeclaration" ->
               Node("VariableName", stmt.name, stmt.position,
                    << Ancestor("VariableDeclaration", stmt.name, stmt.position) >> \o inside)
          [] stmt.type = "MixinReference" ->
               Node("Identifier", stmt.name, stmt.position,
                    << Ancestor("MixinReference", stmt.name, stmt.position) >> \o inside)
          [] stmt.type = "FunctionCall" ->
               Node("Identifier", stmt.name, stmt.position,
                    << Ancestor("Function", stmt.name, stmt.position),
                       Ancestor("Term", "", stmt.position) >> \o inside)
          [] stmt.type \in {"MixinDeclaration", "FunctionDeclaration"} ->
               Node("Identifier", stmt.name, stmt.position,
                    << Ancestor(stmt.type, stmt.name, stmt.position) >> \o inside)
          [] OTHER ->
               Node("StringLiteral", "", stmt.position,
                    << Ancestor(stmt.type, "", stmt.position) >> \o inside)

\* the node under the cursor: the name of statement k of the text, or, for
\* k = 0, an identifier that is a child of the style sheet, a node with fewer
\* than two ancestors
NodeAt(text, k) ==
    IF k = 0 THEN Node("Identifier", "a", Position(0, 0), <<StylesheetNode>>)
    ELSE NodeAtStmt(text[k])

-----------------------------------------------------------------------------
(* providers/goDefinition.ts *)

NoIdentifier == [kind |-> "none"]
Identifier(type, name, position) ==
    [kind |-> "identifier", type |-> type, name |-> name, position |-> position]

NullResult == [kind |-> "null"]
Location(uri, start, end) ==
    [kind |-> "location", uri |-> uri, range |-> [start |-> start, end |-> end]]

samePosition(a, b) == a.line = b.line /\ a.character = b.character

\* the while loop of goDefinition: up to two parents above the identifier
RECURSIVE WalkUp(_, _)
WalkUp(node, i) ==
    IF node = NullNode THEN Raised
    ELSE IF node.type = "MixinReference" \/ node.type = "Function" \/ i = 2 THEN node
    ELSE WalkUp(getParent(node), i + 1)

\* the identifier goDefinition looks up for the node under the cursor
ClassifyNode(hoverNode) ==
    IF hoverNode = NullNode THEN NoIdentifier
    ELSE IF hoverNode.type = "VariableName"
        THEN LET parent == getParent(hoverNode)
             IN  IF parent = NullNode THEN Raised
                 ELSE IF parent.type # "FunctionParameter"
                         /\ parent.type # "VariableDeclaration"
                    THEN Identifier("variables", hoverNode.name, hoverNode.position)
                 ELSE NoIdentifier
    ELSE IF hoverNode.type = "Identifier"
        THEN LET node == WalkUp(hoverNode, 0)
             IN  IF node = Raised THEN Raised
                 ELSE IF node.type = "MixinReference"
                    THEN Identifier("mixins", node.name, node.position)
                 ELSE IF node.type = "Function"
                    THEN Identifier("functions", node.name, node.position)
                 ELSE NoIdentifier
    ELSE NoIdentifier

RECURSIVE MatchingItems(_, _, _)
MatchingItems(items, identifier, document) ==
    IF Len(items) = 0 THEN <<>>
    ELSE (IF Head(items).name = identifier.name
             /\ ~samePosition(Head(items).position, identifier.position)
             THEN << [document |-> document, info |-> Head(items)] >>
          ELSE <<>>)
         \o MatchingItems(Tail(items), identifier, document)

RECURSIVE getSymbols(_, _)
getSymbols(symbolList, identifier) ==
    IF Len(symbolList) = 0 THEN <<>>
    ELSE MatchingItems(Head(symbolList)[identifier.type], identifier,
                       Head(symbolList).filepath)
         \o getSymbols(Tail(symbolList), identifier)

\* A variant whose location ends where it starts
goIdentifierNoSpan(docs, documentUri, identifier) ==
    LET documentPath == uriToFsPath(documentUri)
        symbolsList == getSymbolsRelatedToDocument(StorageValues(docs), documentPath)
        candidates == getSymbols(symbolsList, identifier)
    IN  IF Len(candidates) = 0 THEN NullResult
        ELSE Location(UriFile(candidates[1].document), candidates[1].info.position,
                      candidates[1].info.position)

\* A variant that answers with the last candidate
goIdentifierLast(docs, documentUri, identifier) ==
    LET documentPath == uriToFsPath(documentUri)
        symbolsList == getSymbolsRelatedToDocument(StorageValues(docs), documentPath)
        candidates == getSymbols(symbolsList, identifier)
    IN  IF Len(candidates) = 0 THEN NullResult
        ELSE LET definition == candidates[Len(candidates)]
             IN  Location(UriFile(definition.document),
                          definition.info.position,
                          Position(definition.info.position.line,
                                   definition.info.position.character
                                       + Len(definition.info.name)))

\* goIdentifier, on the storage the write-back has left
goIdentifier(docs, documentUri, identifier) ==
    LET documentPath == uriToFsPath(documentUri)
        symbolsList == getSymbolsRelatedToDocument(StorageValues(docs), documentPath)
        candidates == getSymbols(symbolsList, identifier)
    IN  IF Len(candidates) = 0 THEN NullResult
        ELSE LET definition == candidates[1]
             IN  Location(UriFile(definition.document),
                          definition.info.position,
                          Position(definition.info.position.line,
                                   definition.info.position.character
                                       + Len(definition.info.name)))

NoQuery == [op |-> "none"]

\* A variant of goDefinition that empties the Index and answers nothing
goDefinitionForgetting(docs, p, textName, k) ==
    [scssDocuments |-> <<>>, query |-> NoQuery]

\* goDefinition(document, offset, storage) with the document at path p open
\* with this text and the cursor on statement k: the storage it leaves and
\* what it answers
goDefinitionOn(docs, p, textName, k) ==
    LET documentUri == UriFile(p)
        text == TextOf(textName)
        symbols == parseDocumentSymbols(documentUri, text)
        identifier == ClassifyNode(NodeAt(text, k))
        written == StorageSet(docs, documentUri, symbols)
    IN  [scssDocuments |-> IF identifier.kind = "identifier" THEN written ELSE docs,
         query |-> [op |-> "goDefinition", uri |-> documentUri, text |-> textName,
                    identifier |-> identifier,
                    result |-> IF identifier.kind = "identifier"
                                  THEN goIdentifier(written, documentUri, identifier)
                               ELSE IF identifier = Raised THEN Raised
                               ELSE NullResult]]

goDefinition(p, textName, k) ==
    LET outcome == goDefinitionOn(scssDocuments, p, textName, k)
    IN  /\ scssDocuments' = outcome.scssDocuments
        /\ lastQuery' = outcome.query
        /\ UNCHANGED <<resolveVars, envVars, tsConfigs, tsConfigsAssociations, scanVars, watcherVars>>

-----------------------------------------------------------------------------
(* providers/links.ts *)

ScssExtension == <<".scss">>

\* A variant of findLinkNodes that finds the literals of the @import too
RECURSIVE findImportNodes(_)
findImportNodes(text) ==
    IF Len(text) = 0 THEN <<>>
    ELSE (IF Head(text).type \in {"Use", "Import"} /\ Head(text).top
             THEN <<Head(text)>> ELSE <<>>)
         \o findImportNodes(Tail(text))

\* findLinkNodes: the string literal of every @use that is a child of the style sheet
RECURSIVE findLinkNodes(_)
findLinkNodes(text) ==
    IF Len(text) = 0 THEN <<>>
    ELSE (IF Head(text).type = "Use" /\ Head(text).top THEN <<Head(text)>> ELSE <<>>)
         \o findLinkNodes(Tail(text))

Quote == <<"'">>
UseKeyword == <<"@use", " ">>

\* the string literal of an @use: node.getText(), node.offset and node.end as
\* positions of the document
LiteralText(stmt) == Quote \o stmt.text \o Quote

LiteralStart(stmt) ==
    Position(stmt.position.line, stmt.position.character + Len(UseKeyword))

LiteralEnd(stmt) ==
    Position(stmt.position.line,
             stmt.position.character + Len(UseKeyword) + Len(LiteralText(stmt)))

\* s.slice(1, -1)
SliceQuotes(s) == SubSeq(s, 2, Len(s) - 1)

\* links(document, storage) for the document at documentUri holding text
linksOn(configs, associations, documentUri, text) ==
    LET linkNodes == findLinkNodes(text)
        tsConfig == getAssociatedTsConfig(configs, associations, documentUri)
        documentPath == uriToFsPath(documentUri)
    IN  [i \in 1..Len(linkNodes) |->
            [target |-> resolveAliasedPath(SliceQuotes(LiteralText(linkNodes[i])),
                                           documentPath, tsConfig)
                        \o ScssExtension,
             range |-> [start |-> LiteralStart(linkNodes[i]),
                        end |-> LiteralEnd(linkNodes[i])]]]

links(p, textName) ==
    /\ lastQuery' = [op |-> "links", uri |-> UriFile(p), text |-> textName,
                     result |-> linksOn(tsConfigs, tsConfigsAssociations,
                                        UriFile(p), TextOf(textName))]
    /\ UNCHANGED <<resolveVars, envVars, storageVars, scanVars, watcherVars>>

-----------------------------------------------------------------------------
(* providers/completion.ts *)

NoLabel == ""

CompletionSettings(implicitlyLabel, suggestVariables, suggestMixins, suggestFunctions) ==
    [implicitlyLabel |-> implicitlyLabel, suggestVariables |-> suggestVariables,
     suggestMixins |-> suggestMixins, suggestFunctions |-> suggestFunctions]

\* the cursor is not in the string literal of an @use or @import
NoInput == [present |-> FALSE, fragment |-> <<>>]

\* createCompletionContext: what the text before the cursor is recognised as,
\* with the cursor outside the string of an @use or @import (the contexts
\* "use" and "import" do not hold)
Context(comment, variable, function, mixin) ==
    [comment |-> comment, variable |-> variable, function |-> function, mixin |-> mixin,
     input |-> NoInput]

\* createCompletionContext with the cursor in the string literal of an @use or
\* @import, after the characters "fragment" of it: context.use or
\* context.import holds, and inside an open quote, with no interpolation in
\* the current word, the variable, function and mixin checks fail
ImportContext(comment, fragment) ==
    [comment |-> comment, variable |-> FALSE, function |-> FALSE, mixin |-> FALSE,
     input |-> [present |-> TRUE, fragment |-> fragment]]

\* additionalTextEdits: none, or the edit of createUseEdit at this position
NoEdit == [kind |-> "none"]
UseEdit(position) == [kind |-> "edit", position |-> position]

\* the child of the style sheet of type Use with the greatest offset
LastUse(text) ==
    LET uses == {i \in 1..Len(text) : text[i].type = "Use" /\ text[i].top}
    IN  text[CHOOSE i \in uses :
                \A j \in uses :
                   \/ text[j].position.line < text[i].position.line
                   \/ /\ text[j].position.line = text[i].position.line
                      /\ text[j].position.character <= text[i].position.character]

\* createUseEdit: the position document.positionAt(lastUse.offset + lastUse.length)
createUseEdit(text) == UseEdit(LiteralEnd(LastUse(text)))

isImplicitly(symbolsDocument, documentPath, documentImports) ==
    symbolsDocument # documentPath /\ ~InSeq(documentImports, symbolsDocument)

\* some child of the style sheet is of this type
HasChild(text, type) == \E i \in 1..Len(text) : text[i].type = type /\ text[i].top

\* a completion item: "implicitly" is the label put before the path of the
\* detail ("" when there is none), "from" and "to" are the arguments of
\* getDocumentPath, whose result is the rest of the detail; "file" is the
\* label of an item of createImportCompletionItems, a file name
Item(kind, label, implicitly, from, to, useEdit) ==
    [kind |-> kind, label |-> label, implicitly |-> implicitly,
     from |-> from, to |-> to, useEdit |-> useEdit, file |-> <<>>]

ImportItem(kind, file) ==
    [kind |-> kind, label |-> "", implicitly |-> NoLabel,
     from |-> <<>>, to |-> <<>>, useEdit |-> NoEdit, file |-> file]

\* the directories: a directory exists when a file of the file system lies in
\* it or below it
FsPathList == <<PathX, PathY, PathM, ConfigRoot, ConfigSub>>

LiesBelow(p, dir) ==
    IF dir = <<Sep>> THEN Len(p) > 1 /\ p[1] = Sep
    ELSE Len(p) > Len(dir) + 1 /\ StartsWith(p, dir \o <<Sep>>)

DirExists(dir) ==
    \E i \in 1..Len(FsPathList) : fileExists(FsPathList[i]) /\ LiesBelow(FsPathList[i], dir)

\* the name of the entry of dir through which the path p below it is reached,
\* and whether that entry is p itself, a file
EntryOf(p, dir) ==
    LET rest == Drop(p, IF dir = <<Sep>> THEN 1 ELSE Len(dir) + 1)
        cut == IndexOf(rest, <<Sep>>)
    IN  [name |-> IF cut = 0 THEN rest ELSE SubSeq(rest, 1, cut - 1), isFile |-> cut = 0]

\* readDir(dir) with statFile of each name: fs.readdir fails on a directory
\* that does not exist
RECURSIVE DirEntries(_, _)
DirEntries(dir, i) ==
    IF i > Len(FsPathList) THEN <<>>
    ELSE LET rest == DirEntries(dir, i + 1)
             p == FsPathList[i]
         IN  IF fileExists(p) /\ LiesBelow(p, dir) /\ ~InSeq(rest, EntryOf(p, dir))
                THEN <<EntryOf(p, dir)>> \o rest
             ELSE rest

readDir(dir) == IF DirExists(dir) THEN Returned(DirEntries(dir, 1)) ELSE Raised

\* s.split('/').pop()
LastPart(s) ==
    LET seps == {i \in 1..Len(s) : s[i] = Sep}
    IN  IF seps = {} THEN s
        ELSE Drop(s, CHOOSE i \in seps : \A j \in seps : j <= i)

RECURSIVE ImportItems(_, _)
ImportItems(stats, lastInputPart) ==
    IF Len(stats) = 0 THEN <<>>
    ELSE LET stat == Head(stats)
             rest == ImportItems(Tail(stats), lastInputPart)
         IN  IF stat.isFile /\ ~EndsWith(stat.name, ScssExtension) THEN rest
             ELSE IF Len(lastInputPart) > 0 /\ ~StartsWith(stat.name, lastInputPart) THEN rest
             ELSE << ImportItem(IF stat.isFile THEN "file" ELSE "folder",
                                IF stat.isFile THEN StrReplace(stat.name, ScssExtension, <<>>)
                                ELSE stat.name) >> \o rest

\* createImportCompletionItems with the cursor in a string literal, after the
\* characters inputFragment of it
createImportCompletionItems(documentPath, inputFragment, associatedTsConfig) ==
    LET fullInputPath == resolveAliasedPath(inputFragment, documentPath, associatedTsConfig)
        fullInputPathDir == IF EndsWith(inputFragment, <<Sep>>) THEN fullInputPath
                            ELSE PathDirname(fullInputPath)
        files == readDir(fullInputPathDir)
    IN  IF files = Raised THEN Raised
        ELSE Returned(ImportItems(files.value, LastPart(inputFragment)))

RECURSIVE ItemsOfTable(_, _, _, _, _, _)
ItemsOfTable(entries, kind, implicitly, from, to, useEdit) ==
    IF Len(entries) = 0 THEN <<>>
    ELSE <<Item(kind, Head(entries).name, implicitly, from, to, useEdit)>>
         \o ItemsOfTable(Tail(entries), kind, implicitly, from, to, useEdit)

RECURSIVE createVariableCompletionItems(_, _, _, _, _)
createVariableCompletionItems(text, symbols, filepath, imports, completionSettings) ==
    IF Len(symbols) = 0 THEN <<>>
    ELSE LET symbol == Head(symbols)
             isOnlyUse == ~HasChild(text, "Import")
             lastUse == HasChild(text, "Use")
             isImplicitlyImport == isImplicitly(symbol.document, filepath, imports)
             symbolsPath == IF isImplicitlyImport THEN symbol.filepath
                            ELSE StrReplace(symbol.document, <<"file:">>, <<>>)
             implicitly ==
                 IF isImplicitlyImport /\ completionSettings.implicitlyLabel # NoLabel
                       /\ ~isOnlyUse
                    THEN completionSettings.implicitlyLabel
                 ELSE NoLabel
         IN  ItemsOfTable(symbol.variables, "variable", implicitly,
                          uriToFsPath(filepath), uriToFsPath(symbolsPath),
                          IF isOnlyUse /\ lastUse THEN createUseEdit(text) ELSE NoEdit)
             \o createVariableCompletionItems(text, Tail(symbols), filepath, imports,
                                              completionSettings)

RECURSIVE createMixinCompletionItems(_, _, _, _)
createMixinCompletionItems(symbols, filepath, imports, completionSettings) ==
    IF Len(symbols) = 0 THEN <<>>
    ELSE LET symbol == Head(symbols)
             isImplicitlyImport == isImplicitly(symbol.document, filepath, imports)
             implicitly ==
                 IF isImplicitlyImport /\ completionSettings.implicitlyLabel # NoLabel
                    THEN completionSettings.implicitlyLabel
                 ELSE NoLabel
         IN  ItemsOfTable(symbol.mixins, "mixin", implicitly, filepath,
                          IF isImplicitlyImport THEN symbol.filepath ELSE symbol.document,
                          NoEdit)
             \o createMixinCompletionItems(Tail(symbols), filepath, imports,
                                           completionSettings)

RECURSIVE createFunctionCompletionItems(_, _, _, _)
createFunctionCompletionItems(symbols, filepath, imports, completionSettings) ==
    IF Len(symbols) = 0 THEN <<>>
    ELSE LET symbol == Head(symbols)
             isImplicitlyImport == isImplicitly(symbol.document, filepath, imports)
             implicitly ==
                 IF isImplicitlyImport /\ completionSettings.implicitlyLabel # NoLabel
                    THEN completionSettings.implicitlyLabel
                 ELSE NoLabel
         IN  ItemsOfTable(symbol.functions, "function", implicitly, filepath,
                          IF isImplicitlyImport THEN symbol.filepath ELSE symbol.document,
                          NoEdit)
             \o createFunctionCompletionItems(Tail(symbols), filepath, imports,
                                              completionSettings)

\* A variant that offers every category whatever the context and the settings
completionItemsUngated(docs, documentUri, text, symbols, context, completionSettings, tsConfig) ==
    LET documentPath == uriToFsPath(documentUri)
        symbolsList == getSymbolsRelatedToDocument(StorageValues(docs), documentPath)
        documentImports == [i \in 1..Len(symbols.imports) |-> symbols.imports[i].filepath]
    IN  Returned(createVariableCompletionItems(text, symbolsList, documentPath,
                                               documentImports, completionSettings)
                 \o createMixinCompletionItems(symbolsList, documentPath,
                                               documentImports, completionSettings)
                 \o createFunctionCompletionItems(symbolsList, documentPath,
                                                  documentImports, completionSettings))

\* the outcome of doCompletion, on the storage the write-back has left: the
\* items, or Raised when the promise of createImportCompletionItems is rejected
completionItems(docs, documentUri, text, symbols, context, completionSettings, tsConfig) ==
    LET documentPath == uriToFsPath(documentUri)
        symbolsList == getSymbolsRelatedToDocument(StorageValues(docs), documentPath)
        documentImports == [i \in 1..Len(symbols.imports) |-> symbols.imports[i].filepath]
        uses == IF context.input.present
                   THEN createImportCompletionItems(documentPath, context.input.fragment,
                                                    tsConfig)
                ELSE Returned(<<>>)
    IN  IF context.comment THEN Returned(<<>>)
        ELSE IF uses = Raised THEN Raised
        ELSE Returned(
             uses.value
             \o (IF completionSettings.suggestVariables /\ context.variable
                     THEN createVariableCompletionItems(text, symbolsList, documentPath,
                                                        documentImports, completionSettings)
                  ELSE <<>>)
             \o (IF completionSettings.suggestMixins /\ context.mixin
                    THEN createMixinCompletionItems(symbolsList, documentPath,
                                                    documentImports, completionSettings)
                 ELSE <<>>)
             \o (IF completionSettings.suggestFunctions /\ context.function
                    THEN createFunctionCompletionItems(symbolsList, documentPath,
                                                       documentImports, completionSettings)
                 ELSE <<>>))

\* A variant of doCompletion that writes the table back under the file path
\* of the document instead of its URI
doCompletionOnPathKey(docs, p, textName, context, completionSettings) ==
    [scssDocuments |-> StorageSet(docs, p, parseDocumentSymbols(UriFile(p), TextOf(textName))),
     query |-> [op |-> "doCompletion", uri |-> UriFile(p), text |-> textName,
                context |-> context, settings |-> completionSettings,
                outcome |-> "value", result |-> <<>>]]

\* doCompletion(document, offset, settings, storage) with the document at
\* path p open with this text: the storage it leaves and what it answers
doCompletionOn(docs, p, textName, context, completionSettings) ==
    LET documentUri == UriFile(p)
        text == TextOf(textName)
        symbols == parseDocumentSymbols(documentUri, text)
        associatedTsConfig == getAssociatedTsConfig(tsConfigs, tsConfigsAssociations,
                                                    documentUri)
        written == StorageSet(docs, documentUri, symbols)
        outcome == completionItems(written, documentUri, text, symbols,
                                   context, completionSettings, associatedTsConfig)
    IN  [scssDocuments |-> written,
         query |-> [op |-> "doCompletion", uri |-> documentUri, text |-> textName,
                    context |-> context, settings |-> completionSettings,
                    outcome |-> outcome.kind,
                    result |-> IF outcome = Raised THEN <<>> ELSE outcome.value]]

doCompletion(p, textName, context, completionSettings) ==
    LET outcome == doCompletionOn(scssDocuments, p, textName, context, completionSettings)
    IN  /\ scssDocuments' = outcome.scssDocuments
        /\ lastQuery' = outcome.query
        /\ UNCHANGED <<resolveVars, envVars, tsConfigs, tsConfigsAssociations, scanVars, watcherVars>>

-----------------------------------------------------------------------------
(* Specifications *)

Settings(scanImportedFiles) == [scanImportedFiles |-> scanImportedFiles]

\* no batch of file events has been delivered
NoBatch == [kind |-> "none"]

ResolveIdle ==
    /\ rImport = <<>>
    /\ rDocument = <<>>
    /\ rConfig = NoTsConfig
    /\ rResult = NotCalled
    /\ parents = NoFind
    /\ parseChain = <<>>

StorageEmpty ==
    /\ scssDocuments = <<>>
    /\ tsConfigs = <<>>
    /\ tsConfigsAssociations = <<>>

ScanIdle ==
    /\ scanFiles = <<>>
    /\ scanIterator = <<>>
    /\ scanIndex = 0
    /\ scanStatus = "idle"
    /\ scanLog = <<>>
    /\ fsStable = TRUE
    /\ lastQuery = NoQuery
    /\ configOps = <<>>
    /\ delivered = NoBatch
    /\ lastCall = NoCall

\* the alias resolver applied to every input of the bounded sets
ResolveInit ==
    /\ rImport \in ImportPaths
    /\ rDocument \in ResolveDocuments
    /\ rConfig \in ResolveConfigs
    /\ rResult = NotCalled
    /\ parents = NoFind
    /\ parseChain = <<>>
    /\ cwd = <<Sep>>
    /\ fs = [p \in FsPaths |-> Absent]
    /\ fsChanges = 0
    /\ settings = Settings(TRUE)
    /\ StorageEmpty
    /\ ScanIdle

ResolveCall ==
    /\ rResult = NotCalled
    /\ rResult' = Returned(resolveAliasedPath(rImport, rDocument, rConfig))
    /\ UNCHANGED <<rImport, rDocument, rConfig, parents, parseChain, envVars, storageVars,
                   scanVars, lastQuery, watcherVars>>

ResolveNext == ResolveCall

SpecResolve == ResolveInit /\ [][ResolveNext]_vars

\* the scanner over every file system, with files changing under it
ScanInit ==
    /\ ResolveIdle
    /\ cwd = <<Sep>>
    /\ fs \in [FsPaths -> {Absent, Unreadable} \cup TextNames \cup ConfigTextNames]
    /\ \A p \in ScssPaths : fs[p] \in FileStates(p)
    /\ \A p \in TsConfigPaths : fs[p] = Absent
    /\ fsChanges = 0
    /\ settings \in {Settings(b) : b \in BOOLEAN}
    /\ StorageEmpty
    /\ ScanIdle

ScanNext ==
    \/ \E files \in ScanRequests : ScanStart(files)
    \/ ScanStep
    \/ \E p \in ScssPaths : \E state \in FileStates(p) : FsChange(p, state)

SpecScan == ScanInit /\ [][ScanNext]_vars

\* the server: the scanner, the watcher's events and the providers' queries
ImplicitlyLabels == {NoLabel, "(implicitly)"}

CompletionSettingsPool ==
    {CompletionSettings(l, TRUE, TRUE, TRUE) : l \in ImplicitlyLabels}

\* settings with a category switched off
DisabledSettingsPool ==
    {CompletionSettings(NoLabel, FALSE, TRUE, TRUE),
     CompletionSettings(NoLabel, TRUE, FALSE, FALSE)}

\* "color: $"  /  "@include "  /  "width: #{f"  /  "// $"
ContextPool ==
    { Context(FALSE, TRUE, FALSE, FALSE),
      Context(FALSE, FALSE, FALSE, TRUE),
      Context(FALSE, TRUE, TRUE, FALSE),
      Context(TRUE, TRUE, FALSE, FALSE) }

\* "@use '@lib/mi"  /  "@use '../sub/"  /  "@import '../libs/mi"  /
\* "// @use '../sub/"
ImportContextPool ==
    { ImportContext(FALSE, <<"@", "lib", Sep, "mi">>),
      ImportContext(FALSE, <<"..", Sep, "sub", Sep>>),
      ImportContext(FALSE, <<"..", Sep, "libs", Sep, "mi">>),
      ImportContext(TRUE, <<"..", Sep, "sub", Sep>>) }

\* the texts completion is asked in, in the document x.scss
CompletionTexts == {"X1", "X2", "X4"}

\* every file of the workspace is on disk, no config is
WorkspaceOnDisk ==
    [p \in FsPaths |->
        IF p = PathX THEN "X1" ELSE IF p = PathY THEN "Y1"
        ELSE IF p = PathM THEN "M1" ELSE Absent]

\* the watcher reports one file, or the workspace is scanned from one file
FileEvents == {<<p>> : p \in ScssPaths}

\* the scanner, files deleted under it, and definition queries
DefinitionInit ==
    /\ ResolveIdle
    /\ cwd = <<Sep>>
    /\ fs = WorkspaceOnDisk
    /\ fsChanges = 0
    /\ settings = Settings(TRUE)
    /\ StorageEmpty
    /\ ScanIdle

DefinitionNext ==
    \/ \E files \in FileEvents : ScanStart(files)
    \/ ScanStep
    \/ \E p \in ScssPaths : FsChange(p, Absent)
    \/ \E t \in TextsOf(PathX) : \E k \in 0..Len(TextOf(t)) : goDefinition(PathX, t, k)

SpecDefinition == DefinitionInit /\ [][DefinitionNext]_vars

\* the configs are on disk too
WorkspaceWithConfigs ==
    [p \in FsPaths |->
        IF p = ConfigRoot THEN "CLib" ELSE IF p = ConfigSub THEN "CSub"
        ELSE WorkspaceOnDisk[p]]

\* the scanner, the discovery of the configs, and link queries; the server
\* runs in one of the working directories
LinksInit ==
    /\ ResolveIdle
    /\ cwd \in WorkingDirs
    /\ fs = WorkspaceWithConfigs
    /\ fsChanges = 0
    /\ settings = Settings(TRUE)
    /\ StorageEmpty
    /\ ScanIdle

LinksNext ==
    \/ \E files \in FileEvents : ScanStart(files)
    \/ ScanStep
    \/ \E c \in TsConfigPaths : addTsConfigFile(c)
    \/ \E p \in ScssPaths : \E t \in TextsOf(p) \cup (IF p = PathX THEN {"X3"} ELSE {}) :
          links(p, t)

SpecLinks == LinksInit /\ [][LinksNext]_vars

\* the directories /proj/sub and /proj/src, and a config below /proj/sub that
\* is on no disk
SubDir == <<Sep, "proj", Sep, "sub">>
SrcDir == <<Sep, "proj", Sep, "src">>
ConfigDeep == <<Sep, "proj", Sep, "sub", Sep, "deep", Sep, "tsconfig.json">>

\* only /proj/sub/tsconfig.json is on disk, and it extends nothing
WorkspaceWithSubConfig ==
    [p \in FsPaths |->
        IF p = ConfigSub THEN "CVendor" ELSE WorkspaceOnDisk[p]]

\* the calls of deleteTsConfigFile, a config and a workspace root each: the
\* server hands over the URI of the first workspace folder, a caller of the
\* class may hand over a path
DeleteCalls ==
    { <<ConfigSub, ProjDir>>, <<ConfigSub, workspaceRoot>>, <<ConfigSub, SrcDir>>,
      <<ConfigRoot, SubDir>>, <<ConfigDeep, ProjDir>> }

\* the directories findFileInParents starts in, and the limits it is given:
\* the workspace directory as a normalized path, with a trailing separator, in
\* non-normalized form and as the URI the server hands over, and directories
\* beside and above
DeepDir == <<Sep, "proj", Sep, "sub", Sep, "deep">>
FindDirs == {DeepDir, SubDir, SrcDir, ProjDir}
FindLimits ==
    { ProjDir, ProjDir \o <<Sep>>, <<Sep, "proj", Sep, "src", Sep, "..">>, workspaceRoot,
      SubDir, <<Sep>> }

\* findFileInParents on every start directory and limit, on a disk with no
\* config, with both configs and with the config of /proj/sub alone
ParentsInit ==
    /\ ResolveIdle
    /\ cwd \in WorkingDirs
    /\ fs \in {WorkspaceOnDisk, WorkspaceWithConfigs, WorkspaceWithSubConfig}
    /\ fsChanges = 0
    /\ settings = Settings(TRUE)
    /\ StorageEmpty
    /\ ScanIdle

ParentsNext ==
    \/ \E dir \in FindDirs, limit \in FindLimits :
          findFileInParentsBegin(TsConfigName, dir, limit)
    \/ findFileInParentsLoop

SpecParents == ParentsInit /\ [][ParentsNext]_vars

\* the disks with each content of the two configs, the cyclic ones included
ExtendsDisks ==
    { [p \in FsPaths |->
          IF p = ConfigRoot THEN r ELSE IF p = ConfigSub THEN s ELSE WorkspaceOnDisk[p]] :
      r \in {Absent, "CLib", "CBad", "CSelf", "CDown"}, s \in {Absent, "CSub", "CVendor"} }

\* addTsConfigFile and updateTsConfigFile with the reads of parseTsConfig as
\* steps, on every disk, after x.scss has been scanned
ExtendsInit ==
    /\ ResolveIdle
    /\ cwd = ProjDir
    /\ fs \in ExtendsDisks
    /\ fsChanges = 0
    /\ settings = Settings(TRUE)
    /\ StorageEmpty
    /\ ScanIdle

ExtendsNext ==
    \/ ScanStart(<<PathX>>)
    \/ ScanStep
    \/ \E c \in TsConfigPaths : configCallBegin("add", c)
    \/ \E c \in TsConfigPaths : configCallBegin("update", c)
    \/ parseTsConfigExtends
    \/ configCallEnd

SpecExtends == ExtendsInit /\ [][ExtendsNext]_vars

\* the scanner and the calls that add and delete configs and clear the
\* storage, each run from its beginning to its end; the server runs in one of
\* the working directories
ConfigsInit ==
    /\ ResolveIdle
    /\ cwd \in WorkingDirs \cup {SubDir}
    /\ fs \in {WorkspaceWithConfigs, WorkspaceWithSubConfig}
    /\ fs = WorkspaceWithSubConfig => cwd = SubDir
    /\ fsChanges = 0
    /\ settings = Settings(TRUE)
    /\ StorageEmpty
    /\ ScanIdle

ConfigsNext ==
    \/ ScanStart(<<PathY>>)
    \/ ScanStep
    \/ \E c \in TsConfigPaths : addTsConfigFile(c)
    \/ \E call \in DeleteCalls : deleteTsConfigFile(call[1], call[2])
    \/ clear

SpecConfigs == ConfigsInit /\ [][ConfigsNext]_vars

\* /proj/tsconfig.json is edited on disk or x.scss is deleted, and the configs
\* are updated, with link queries
UpdateInit ==
    /\ ResolveIdle
    /\ cwd = ProjDir
    /\ fs = WorkspaceWithConfigs
    /\ fsChanges = 0
    /\ settings = Settings(TRUE)
    /\ StorageEmpty
    /\ ScanIdle

UpdateNext ==
    \/ ScanStart(<<PathX>>)
    \/ ScanStep
    \/ \E c \in TsConfigPaths : addTsConfigFile(c)
    \/ \E c \in TsConfigPaths : updateTsConfigFile(c)
    \/ \E state \in FileStates(ConfigRoot) : FsChange(ConfigRoot, state)
    \/ FsChange(PathX, Absent)
    \/ links(PathX, "X1")

SpecUpdate == UpdateInit /\ [][UpdateNext]_vars

\* the file events the watcher reports (the handler does not look at the type
\* of the event of a .scss file)
WatchedEvents ==
    {FileEvent(UriFile(ConfigRoot), type) : type \in {"Created", "Changed", "Deleted"}}
    \cup {FileEvent(UriFile(ConfigSub), "Created"), FileEvent(UriFile(PathX), "Changed")}

\* the watcher delivers batches of events to the running server
WatcherInit ==
    /\ ResolveIdle
    /\ cwd = ProjDir
    /\ fs = WorkspaceWithConfigs
    /\ fsChanges = 0
    /\ settings = Settings(TRUE)
    /\ StorageEmpty
    /\ ScanIdle

WatcherNext ==
    \/ \E changes \in SeqsUpTo(WatchedEvents, MaxEvents) :
          Len(changes) > 0 /\ onDidChangeWatchedFiles(changes)
    \/ ScanStep
    \/ \E i \in 1..Len(configOps) : configOpResume(i)

SpecWatcher == WatcherInit /\ [][WatcherNext]_vars

\* the scanner and completion queries in the document x.scss
CompletionInit ==
    /\ ResolveIdle
    /\ cwd = <<Sep>>
    /\ fs = WorkspaceOnDisk
    /\ fsChanges = 0
    /\ settings = Settings(TRUE)
    /\ StorageEmpty
    /\ ScanIdle

CompletionNext ==
    \/ \E p \in {PathX, PathM} : ScanStart(<<p>>)
    \/ ScanStep
    \/ \E t \in CompletionTexts : \E context \in ContextPool :
          \E completionSettings \in CompletionSettingsPool :
             doCompletion(PathX, t, context, completionSettings)
    \/ \E context \in ContextPool : \E completionSettings \in DisabledSettingsPool :
          doCompletion(PathX, "X2", context, completionSettings)
    \/ \E context \in ImportContextPool :
          doCompletion(PathX, "X2", context, CompletionSettings(NoLabel, TRUE, TRUE, TRUE))

SpecCompletion == CompletionInit /\ [][CompletionNext]_vars

\* the three providers side by side: the scanner, the discovery of the root
\* config, and definition, completion and link queries in the open documents
QueriesInit ==
    /\ ResolveIdle
    /\ cwd = ProjDir
    /\ fs = WorkspaceWithConfigs
    /\ fsChanges = 0
    /\ settings = Settings(FALSE)
    /\ StorageEmpty
    /\ ScanIdle

\* the documents the editor has open, with the texts they hold there
OpenDocuments == {<<PathX, "X2">>, <<PathY, "Y2">>}

QueriesNext ==
    \/ \E p \in {PathX, PathY} : ScanStart(<<p>>)
    \/ ScanStep
    \/ addTsConfigFile(ConfigRoot)
    \/ \E d \in OpenDocuments : \E k \in 1..Len(TextOf(d[2])) :
          goDefinition(d[1], d[2], k)
    \/ \E d \in OpenDocuments : \E context \in ContextPool :
          doCompletion(d[1], d[2], context, CompletionSettings(NoLabel, TRUE, TRUE, TRUE))
    \/ \E d \in OpenDocuments : links(d[1], d[2])

SpecQueries == QueriesInit /\ [][QueriesNext]_vars


-----------------------------------------------------------------------------
(* Properties of the alias resolver (SpecResolve) *)

\* positions of the aliases of the supplied config that are a prefix of the
\* import path, in declaration order
MatchingAliases ==
    IF rConfig.present /\ rConfig.hasPaths
       THEN {i \in 1..Len(rConfig.paths) : StartsWith(rImport, rConfig.paths[i].alias)}
    ELSE {}

FirstMatching == CHOOSE i \in MatchingAliases : \A j \in MatchingAliases : i <= j

\* the path built from alias i: its first candidate put in place of the
\* matched prefix, resolved against the directory of the config file
BuiltFromAlias(i) ==
    PathResolve(<<PathDirname(rConfig.filepath),
                  rConfig.paths[i].paths[1]
                     \o Drop(rImport, Len(rConfig.paths[i].alias))>>)

PlainRelative == PathResolve(<<PathDirname(rDocument), rImport>>)

\* C4: when one or more aliases of the config match the import path and the
\* first of them in declaration order has a candidate, the result is that
\* alias's first candidate in place of the matched prefix, resolved against
\* the directory of the config file.
C4_FirstMatchWins ==
    (/\ rResult.kind = "value"
     /\ MatchingAliases # {}
     /\ Len(rConfig.paths[FirstMatching].paths) > 0)
    => rResult.value = BuiltFromAlias(FirstMatching)

\* two aliases match, the later one would give another path, and so would
\* the importing file's directory
C4_Witness ==
    /\ rResult.kind = "value"
    /\ Cardinality(MatchingAliases) >= 2
    /\ Len(rConfig.paths[FirstMatching].paths) > 0
    /\ \E j \in MatchingAliases :
          /\ j > FirstMatching
          /\ Len(rConfig.paths[j].paths) > 0
          /\ BuiltFromAlias(j) # rResult.value
    /\ rResult.value # PlainRelative
    /\ rResult.value = BuiltFromAlias(FirstMatching)

\* C5: with no config, a config without alias table, or no matching alias,
\* the result is the import path resolved against the directory of the
\* importing file; the call returns a value for every input.
C5_PlainRelativeFallback ==
    /\ rResult.kind \in {"none", "value"}
    /\ (rResult.kind = "value" /\ MatchingAliases = {})
          => rResult.value = PlainRelative

\* a config with aliases none of which matches a non-empty import path
C5_Witness ==
    /\ rResult.kind = "value"
    /\ rConfig.present /\ rConfig.hasPaths /\ Len(rConfig.paths) > 0
    /\ MatchingAliases = {}
    /\ Len(rImport) > 0
    /\ rResult.value = PlainRelative
    /\ rResult.value # PathDirname(rDocument)
    /\ rResult.value # PathResolve(<<PathDirname(rConfig.filepath), rImport>>)

\* C6: when the first matching alias has no candidate, the result is the
\* import path resolved against the directory of the importing file.
C6_EmptyCandidatesFallBack ==
    (/\ rResult.kind = "value"
     /\ MatchingAliases # {}
     /\ Len(rConfig.paths[FirstMatching].paths) = 0)
    => rResult.value = PlainRelative

\* the first matching alias has no candidate and the call has returned
C6_Witness ==
    /\ rResult.kind = "value"
    /\ MatchingAliases # {}
    /\ Len(rConfig.paths[FirstMatching].paths) = 0
    /\ rResult.value =
          PathResolve(<<PathDirname(rConfig.filepath),
                        StrUndefined \o Drop(rImport, Len(rConfig.paths[FirstMatching].alias))>>)

\* the import path starts with "./" or "../"
IsRelativeImport == StartsWith(rImport, <<".", Sep>>) \/ StartsWith(rImport, <<"..", Sep>>)

\* the alias table of the supplied config holds the alias "*", stored as ""
HasCatchAll ==
    /\ rConfig.present
    /\ rConfig.hasPaths
    /\ \E i \in 1..Len(rConfig.paths) : rConfig.paths[i].alias = <<>>

\* C40: an import path that starts with "./" or "../" resolves against the
\* directory of the importing file for every alias table, a table with the
\* catch-all alias "*" (stored as the empty prefix) included.
C40_RelativeImportsPlain ==
    (rResult.kind = "value" /\ IsRelativeImport) => rResult.value = PlainRelative

\* "./u" imported by /proj/src/x.scss under a config of /proj whose only
\* alias is the catch-all: the result is /proj/w/u, not /proj/src/u
C40_Witness ==
    /\ rResult.kind = "value"
    /\ rImport = <<".", Sep, "u">>
    /\ rDocument = <<Sep, "proj", Sep, "src", Sep, "x", ".scss">>
    /\ rConfig = TsConfig(<<Sep, "proj", Sep, "tsconfig.json">>, TRUE,
                          << PathShorthand(<<>>, << <<"w", Sep>> >>) >>)
    /\ rResult.value = <<Sep, "proj", Sep, "w", Sep, "u">>
    /\ PlainRelative = <<Sep, "proj", Sep, "src", Sep, "u">>

\* "../u" under a table whose catch-all stands behind an alias that does not
\* match: the result lies below the directory of the config
C40_WitnessParent ==
    /\ rResult.kind = "value"
    /\ rImport = <<"..", Sep, "u">>
    /\ HasCatchAll
    /\ Len(rConfig.paths) = 2
    /\ rConfig.paths[1].alias # <<>>
    /\ rResult.value # PlainRelative

\* under a table without the catch-all alias a relative import resolves
\* against the directory of the importing file
C40_PlainWithoutCatchAll ==
    (rResult.kind = "value" /\ IsRelativeImport /\ ~HasCatchAll)
       => rResult.value = PlainRelative

\* a relative import under a table of two aliases, none of them the catch-all
C40_WitnessWithoutCatchAll ==
    /\ rResult.kind = "value"
    /\ IsRelativeImport
    /\ rConfig.present /\ rConfig.hasPaths /\ Len(rConfig.paths) = 2
    /\ ~HasCatchAll
    /\ rResult.value = PlainRelative

-----------------------------------------------------------------------------
(* Properties of the scanner (SpecScan) *)

\* the targets of the non-dynamic, non-css imports of the text the file at
\* path p holds on disk
StaticImportsOf(p) ==
    IF readFileFails(p) THEN {}
    ELSE LET imports == parseDocumentSymbols(UriFile(p), TextOf(FsState(p))).imports
         IN  {imports[i].filepath : i \in {j \in 1..Len(imports) :
                                             ~imports[j].dynamic /\ ~imports[j].css}}

\* the paths reachable from S through at most n static imports
RECURSIVE ReachableWithin(_, _)
ReachableWithin(S, n) ==
    IF n = 0 THEN S
    ELSE ReachableWithin(S \cup UNION {StaticImportsOf(p) : p \in S}, n - 1)

\* the transitive closure of the static import graph from the scanned paths;
\* a chain without repetition passes through each file of the workspace at
\* most once
StaticClosure ==
    ReachableWithin({scanFiles[i] : i \in 1..Len(scanFiles)}, Cardinality(ScssPaths))

Visited(p) == \E i \in 1..Len(scanLog) : scanLog[i].filepath = p

EntriesOf(p) == {i \in 1..Len(scssDocuments) : scssDocuments[i].key = UriFile(p)}

\* C2: when a pass with import scanning enabled has completed, and no file
\* has changed since it began, every existing file among the scanned paths
\* and every existing file reachable from them through static imports has an
\* entry in the storage.
C2_ClosureIndexed ==
    (scanStatus = "done" /\ settings.scanImportedFiles /\ fsStable)
    => \A p \in StaticClosure : fileExists(p) => StorageHas(scssDocuments, UriFile(p))

\* a first pass over x.scss alone has reached mixins.scss through y.scss
C2_Witness ==
    /\ scanStatus = "done" /\ settings.scanImportedFiles /\ fsStable
    /\ fsChanges = 0
    /\ scanFiles = <<PathX>>
    /\ PathM \in StaticClosure
    /\ PathM \notin StaticImportsOf(PathX)
    /\ Visited(PathM)
    /\ StorageHas(scssDocuments, UriFile(PathM))
    /\ StorageHas(scssDocuments, UriFile(PathY))

NoRepetition(s) == \A i, j \in 1..Len(s) : s[i].filepath = s[j].filepath => i = j

\* C3: a pass ends having visited no path twice, and when no file has changed
\* since it began every existing file of the pass has exactly one entry in
\* the storage.
C3_OneEntryPerFile ==
    (scanStatus \in {"done", "failed"} /\ fsStable)
    => /\ NoRepetition(scanLog)
       /\ \A i \in 1..Len(scanIterator) :
             fileExists(scanIterator[i]) => Cardinality(EntriesOf(scanIterator[i])) = 1

\* the same for the passes that run to completion
C3_CompletedPass ==
    (scanStatus = "done" /\ fsStable)
    => /\ NoRepetition(scanLog)
       /\ \A i \in 1..Len(scanIterator) :
             fileExists(scanIterator[i]) => Cardinality(EntriesOf(scanIterator[i])) = 1

\* two files that import each other have been scanned to completion
C3_CycleWitness ==
    /\ scanStatus = "done" /\ fsStable
    /\ PathY \in StaticImportsOf(PathX)
    /\ PathX \in StaticImportsOf(PathY)
    /\ Visited(PathX) /\ Visited(PathY)

\* the pass has ended on a file that exists and cannot be read, with an
\* existing file of the pass left without entry
C3_Witness ==
    /\ scanStatus = "failed" /\ fsStable
    /\ \E i \in 1..Len(scanIterator) :
          /\ fileExists(scanIterator[i])
          /\ ~readFileFails(scanIterator[i])
          /\ EntriesOf(scanIterator[i]) = {}

\* the targets of the dynamic and css imports of the text the file at path p
\* holds on disk
OtherImportsOf(p) ==
    IF readFileFails(p) THEN {}
    ELSE LET imports == parseDocumentSymbols(UriFile(p), TextOf(FsState(p))).imports
         IN  {imports[i].filepath : i \in {j \in 1..Len(imports) :
                                             imports[j].dynamic \/ imports[j].css}}

ScanSet == {scanFiles[i] : i \in 1..Len(scanFiles)}

\* C31: while no file has changed since the pass began, the pass has visited
\* only the scanned paths and, with import scanning enabled, the paths
\* reachable from them through imports that are neither dynamic nor css; with
\* import scanning disabled it has visited the scanned paths only; the target
\* of a dynamic or css import that is not reached otherwise has no entry.
C31_OnlyStaticImportsFollowed ==
    fsStable
    => /\ \A i \in 1..Len(scanLog) :
             scanLog[i].filepath \in (IF settings.scanImportedFiles THEN StaticClosure
                                      ELSE ScanSet)
       /\ \A p \in ScssPaths : \A target \in OtherImportsOf(p) :
             (target \notin StaticClosure /\ fsChanges = 0)
             => ~StorageHas(scssDocuments, UriFile(target))

\* a pass with import scanning enabled has ended after it indexed y.scss,
\* which holds "@import '../libs/base.css'", "@use '../libs/mixins'" and
\* "@import '../src/*'": it has followed the @use to mixins.scss and has
\* visited neither base.css nor the glob
C31_Witness ==
    /\ scanStatus = "done" /\ settings.scanImportedFiles /\ fsStable
    /\ fs[PathY] = "Y2"
    /\ Cardinality(OtherImportsOf(PathY)) = 2
    /\ \E i \in 1..Len(scanLog) :
          scanLog[i].filepath = PathY /\ scanLog[i].outcome = "added"
    /\ PathM \notin ScanSet
    /\ Visited(PathM)
    /\ \A target \in OtherImportsOf(PathY) :
          ~Visited(target) /\ ~StorageHas(scssDocuments, UriFile(target))

\* a pass with import scanning disabled has ended after it indexed x.scss,
\* which imports y.scss, a file on disk: y.scss was not visited
C31_WitnessDisabled ==
    /\ scanStatus = "done" /\ ~settings.scanImportedFiles /\ fsStable
    /\ scanFiles = <<PathX>>
    /\ fs[PathX] = "X1"
    /\ fileExists(PathY)
    /\ PathY \in StaticImportsOf(PathX)
    /\ ~Visited(PathY)
    /\ ~StorageHas(scssDocuments, UriFile(PathY))

\* C22: a pass treats a file that is missing or cannot be read as a file that
\* does not exist: no pass is rejected, and when a pass has ended and no file
\* has changed since it began, every path of the pass has been visited and
\* none that is missing or unreadable has an entry in the Index.
C22_UnreadableAsMissing ==
    /\ scanStatus # "failed"
    /\ (scanStatus = "done" /\ fsStable) =>
          \A i \in 1..Len(scanIterator) :
             /\ Visited(scanIterator[i])
             /\ readFileFails(scanIterator[i]) => EntriesOf(scanIterator[i]) = {}

\* y.scss was indexed and then became unreadable; the next pass has ended at
\* it, its entry is still in the Index, and a readable file of the pass has
\* not been visited
C22_Witness ==
    /\ scanStatus = "failed" /\ fsStable
    /\ scanLog[Len(scanLog)] = Visit(PathY, "rejected")
    /\ FsState(PathY) = Unreadable
    /\ EntriesOf(PathY) # {}
    /\ \E i \in 1..Len(scanIterator) :
          ~Visited(scanIterator[i]) /\ ~readFileFails(scanIterator[i])

\* the part of C22 about missing files: a step of the pass that finds its file
\* missing removes the entry and goes on to the next path
C22_MissingRemoved ==
    [][(scanStatus = "running" /\ ~fileExists(PathNormalize(scanIterator[scanIndex]))
        /\ ScanStep)
       => /\ ~StorageHas(scssDocuments', UriFile(PathNormalize(scanIterator[scanIndex])))
          /\ scanStatus' # "failed"
          /\ scanIndex' = scanIndex + 1]_vars

-----------------------------------------------------------------------------
(* Properties of the definition provider (SpecDefinition) *)

\* the definition queries of the specification: a text of x.scss and the
\* statement under the cursor
DefinitionQueries ==
    UNION {{<<t, k>> : k \in 1..Len(TextOf(t))} : t \in TextsOf(PathX)}

\* what goDefinition would answer to query q in the current state
Answer(q) == goDefinitionOn(scssDocuments, PathX, q[1], q[2])

\* the entries of other documents than the one at uri
OtherEntries(docs, uri) == {i \in 1..Len(docs) : docs[i].key # uri}

\* the declarations of the identifier's kind and name in entry i
DeclarationsIn(docs, i, identifier) ==
    LET table == docs[i].value[identifier.type]
    IN  {table[j] : j \in {n \in 1..Len(table) : table[n].name = identifier.name}}

SpanOf(declaration) ==
    [start |-> declaration.position,
     end |-> Position(declaration.position.line,
                      declaration.position.character + Len(declaration.name))]

\* the iteration of the scanner that is about to run finds its file missing
VisitsMissingFile ==
    /\ scanStatus = "running"
    /\ ~fileExists(PathNormalize(scanIterator[scanIndex]))

NoOtherDeclares(docs, uri, identifier) ==
    \A i \in OtherEntries(docs, uri) : DeclarationsIn(docs, i, identifier) = {}

\* C1: the iteration of a pass that finds its file missing leaves no entry
\* for that file; and a definition query on a reference whose name no
\* indexed document other than the current one declares (the document that
\* declared it has no entry any more) answers null and does not raise.
C1_DeletedDocumentNotFound ==
    /\ [][(VisitsMissingFile /\ scanLog' # scanLog)
            => ~StorageHas(scssDocuments', UriFile(PathNormalize(scanIterator[scanIndex])))]_vars
    /\ [](\A q \in DefinitionQueries :
            LET answer == Answer(q)
                identifier == answer.query.identifier
            IN  /\ answer.query.result # Raised
                /\ (/\ identifier.kind = "identifier"
                    /\ NoOtherDeclares(answer.scssDocuments, UriFile(PathX), identifier))
                   => answer.query.result = NullResult)

\* y.scss was deleted from disk, the pass has removed its entry, and the
\* last definition query, on the reference to the mixin m of x.scss that
\* y.scss alone declared, was answered null
C1_Witness ==
    /\ fs[PathY] = Absent
    /\ \E i \in 1..Len(scanLog) : scanLog[i] = Visit(PathY, "removed")
    /\ ~StorageHas(scssDocuments, UriFile(PathY))
    /\ ~StorageHas(scssDocuments, UriFile(PathM))
    /\ lastQuery.op = "goDefinition"
    /\ lastQuery.text = "X1"
    /\ lastQuery.identifier = Identifier("mixins", "m", Position(3, 0))
    /\ lastQuery.result = NullResult
    /\ DeclarationsIn(<<[key |-> UriFile(PathY),
                          value |-> parseDocumentSymbols(UriFile(PathY), TextOf("Y1"))]>>,
                       1, lastQuery.identifier) # {}

\* C7 as stated: whenever another indexed document declares the name of the
\* identifier under the cursor, the answer is a location in such a document
\* that spans the declared name.
C7_DefinitionFound ==
    \A q \in DefinitionQueries :
        LET answer == Answer(q)
            identifier == answer.query.identifier
            docs == answer.scssDocuments
        IN  (/\ identifier.kind = "identifier"
             /\ ~NoOtherDeclares(docs, UriFile(PathX), identifier))
            => \E i \in OtherEntries(docs, UriFile(PathX)) :
                  \E declaration \in DeclarationsIn(docs, i, identifier) :
                     answer.query.result =
                        Location(docs[i].key, SpanOf(declaration).start,
                                 SpanOf(declaration).end)

\* the declarations of entry i that are not at the position of the identifier
DeclarationsElsewhere(docs, i, identifier) ==
    {d \in DeclarationsIn(docs, i, identifier) :
        d.position.line # identifier.position.line
           \/ d.position.character # identifier.position.character}

\* C7, amended: whenever another indexed document declares the name of the
\* identifier under the cursor at a position other than the position of the
\* identifier in its own document, the answer is a location in such a
\* document that starts at such a declaration and ends on the same line,
\* as many characters later as the name has.
C7_DefinitionFoundElsewhere ==
    \A q \in DefinitionQueries :
        LET answer == Answer(q)
            identifier == answer.query.identifier
            docs == answer.scssDocuments
        IN  (/\ identifier.kind = "identifier"
             /\ \E i \in OtherEntries(docs, UriFile(PathX)) :
                   DeclarationsElsewhere(docs, i, identifier) # {})
            => \E i \in OtherEntries(docs, UriFile(PathX)) :
                  \E declaration \in DeclarationsElsewhere(docs, i, identifier) :
                     answer.query.result =
                        Location(docs[i].key, SpanOf(declaration).start,
                                 SpanOf(declaration).end)

\* the reference to $color in x.scss was answered with line 2 of y.scss,
\* six characters wide
C7_Witness ==
    /\ lastQuery.op = "goDefinition"
    /\ lastQuery.uri = UriFile(PathX)
    /\ lastQuery.identifier = Identifier("variables", "$color", Position(2, 12))
    /\ lastQuery.result = Location(UriFile(PathY), Position(2, 0), Position(2, 6))
    /\ StorageHas(scssDocuments, UriFile(PathY))
    /\ \E d \in DeclarationsIn(scssDocuments, StorageIndex(scssDocuments, UriFile(PathY)),
                                lastQuery.identifier) : d.position = Position(2, 0)

\* C8: no answer is a location in the current document; when no other
\* indexed document declares the name the answer is null; no query raises.
C8_NeverCurrentDocument ==
    /\ (lastQuery.op = "goDefinition" /\ lastQuery.result.kind = "location")
          => lastQuery.result.uri # lastQuery.uri
    /\ \A q \in DefinitionQueries :
          LET answer == Answer(q)
              identifier == answer.query.identifier
          IN  /\ answer.query.result # Raised
              /\ answer.query.result.kind = "location"
                    => answer.query.result.uri # UriFile(PathX)
              /\ (/\ identifier.kind = "identifier"
                  /\ NoOtherDeclares(answer.scssDocuments, UriFile(PathX), identifier))
                 => answer.query.result = NullResult

\* x.scss declares $color itself and its entry is the first of the storage;
\* the query on its reference to $color was answered with the declaration
\* of y.scss
C8_Witness ==
    /\ lastQuery.op = "goDefinition"
    /\ lastQuery.uri = UriFile(PathX)
    /\ lastQuery.text = "X2"
    /\ lastQuery.identifier = Identifier("variables", "$color", Position(2, 12))
    /\ lastQuery.result.kind = "location"
    /\ lastQuery.result.uri = UriFile(PathY)
    /\ StorageIndex(scssDocuments, UriFile(PathX)) = 1
    /\ StorageGet(scssDocuments, UriFile(PathX))
          = parseDocumentSymbols(UriFile(PathX), TextOf("X2"))
    /\ DeclarationsIn(scssDocuments, 1, lastQuery.identifier) # {}

\* the positions in the table of entry i of the declarations of the
\* identifier's name that are not at the position of the identifier
MatchesIn(docs, i, identifier) ==
    LET table == docs[i].value[identifier.type]
    IN  {j \in 1..Len(table) :
            /\ table[j].name = identifier.name
            /\ table[j].position # identifier.position}

\* the entries of other documents that hold such a declaration
EntriesDeclaring(docs, uri, identifier) ==
    {i \in OtherEntries(docs, uri) : MatchesIn(docs, i, identifier) # {}}

Least(S) == CHOOSE n \in S : \A m \in S : n <= m

\* the keys of the first Map that the second Map has too, in their order
KeysKept(docs, later) == SelectSeq(StorageKeys(docs), LAMBDA key : StorageHas(later, key))

\* C29: when entries of other documents declare the name of the identifier,
\* goDefinition answers with the first of these entries in the order of the
\* Map, and with the first such declaration of its table; and no step changes
\* the order of the keys that stay in the Map: a key that is stored again keeps
\* its place.
C29_FirstInIndexOrder ==
    /\ [](\A q \in DefinitionQueries :
            LET answer == Answer(q)
                identifier == answer.query.identifier
                docs == answer.scssDocuments
                declaring == EntriesDeclaring(docs, UriFile(PathX), identifier)
            IN  (identifier.kind = "identifier" /\ declaring # {}) =>
                   LET i == Least(declaring)
                       declaration ==
                           docs[i].value[identifier.type][Least(MatchesIn(docs, i, identifier))]
                   IN  answer.query.result =
                          Location(docs[i].key, SpanOf(declaration).start,
                                   SpanOf(declaration).end))
    /\ [][KeysKept(scssDocuments, scssDocuments') = KeysKept(scssDocuments', scssDocuments)]_vars

\* mixins.scss, which declares $color twice, was indexed before y.scss, which
\* declares it too, and y.scss was stored again since; the reference to $color
\* in x.scss was answered with the first declaration of mixins.scss
C29_Witness ==
    /\ StorageKeys(scssDocuments) = <<UriFile(PathM), UriFile(PathX), UriFile(PathY)>>
    /\ \E i \in 1..Len(scanLog) : scanLog[i] = Visit(PathY, "replaced")
    /\ lastQuery.op = "goDefinition"
    /\ lastQuery.text = "X1"
    /\ lastQuery.identifier = Identifier("variables", "$color", Position(2, 12))
    /\ lastQuery.result = Location(UriFile(PathM), Position(1, 0), Position(1, 6))

\* the node and its ancestors up to two parent steps above it, each as its
\* type, name and position
UpToTwoSteps(node) ==
    <<Ancestor(node.type, node.name, node.position)>>
    \o SubSeq(node.ancestors, 1, IF Len(node.ancestors) < 2 THEN Len(node.ancestors) ELSE 2)

\* the identifier the node under the cursor stands for
Classified(node) ==
    LET chain == UpToTwoSteps(node)
        heads == {i \in 1..Len(chain) : chain[i].type \in {"MixinReference", "Function"}}
    IN  IF node.type = "VariableName"
           THEN (IF Len(node.ancestors) > 0
                       /\ node.ancestors[1].type \notin {"FunctionParameter",
                                                          "VariableDeclaration"}
                    THEN Identifier("variables", node.name, node.position)
                 ELSE NoIdentifier)
        ELSE IF node.type = "Identifier" /\ heads # {}
           THEN Identifier(IF chain[Least(heads)].type = "Function" THEN "functions"
                           ELSE "mixins",
                           chain[Least(heads)].name, chain[Least(heads)].position)
        ELSE NoIdentifier

\* the definition queries with the cursor on the identifier below the style
\* sheet too
ClassifyQueries ==
    DefinitionQueries \cup {<<t, 0>> : t \in TextsOf(PathX)}

\* C33: a definition query never raises; it looks up a variable for a variable
\* name whose parent is neither a function parameter nor a variable
\* declaration, a mixin or a function for an identifier with a mixin
\* reference or a function node within two parent steps, and answers none
\* for every other node, an identifier with fewer than two ancestors included.
C33_ClassifiesOrAnswersNone ==
    \A q \in ClassifyQueries :
        LET node == NodeAt(TextOf(q[1]), q[2])
        IN  /\ Answer(q).query.result # Raised
            /\ Answer(q).query.identifier = Classified(node)
            /\ Classified(node) = NoIdentifier => Answer(q).query.result = NullResult

\* the last definition query had the cursor on an identifier whose only
\* ancestor is the style sheet: it has raised
C33_Witness ==
    /\ lastQuery.op = "goDefinition"
    /\ lastQuery.identifier = Raised
    /\ lastQuery.result = Raised
    /\ \E t \in TextsOf(PathX) :
          /\ lastQuery = Answer(<<t, 0>>).query
          /\ NodeAt(TextOf(t), 0).type = "Identifier"
          /\ Len(NodeAt(TextOf(t), 0).ancestors) < 2

\* on the nodes of the statements of the texts, each with two ancestors or
\* more, a definition query does not raise and classifies as described
C33_ClassifiesDeeperNodes ==
    \A q \in DefinitionQueries :
        LET node == NodeAt(TextOf(q[1]), q[2])
        IN  /\ Len(node.ancestors) >= 2
            /\ Answer(q).query.result # Raised
            /\ Answer(q).query.identifier = Classified(node)
            /\ Classified(node) = NoIdentifier => Answer(q).query.result = NullResult

-----------------------------------------------------------------------------
(* Properties of the links provider (SpecLinks) *)

\* the targets links answers for the document at path p holding text t
LinkTargets(configs, associations, p, t) ==
    LET found == linksOn(configs, associations, UriFile(p), TextOf(t))
    IN  [i \in 1..Len(found) |-> found[i].target]

\* C9: when /proj/tsconfig.json, with the alias "@lib/*" -> ["libs/"], is
\* added while /proj/src/x.scss is in the storage, links on x.scss with
\* @use '@lib/mixins' yields the target /proj/libs/mixins.scss from then on.
C9_AliasedLinkTarget ==
    [][(/\ StorageHas(scssDocuments, UriFile(PathX))
        /\ fs[ConfigRoot] = "CLib"
        /\ addTsConfigFile(ConfigRoot))
       => LinkTargets(tsConfigs', tsConfigsAssociations', PathX, "X1") = <<PathM>>]_vars

\* x.scss is in the storage, the config is registered with its alias, and
\* links on x.scss was answered with a path below the directory of x.scss
C9_Witness ==
    /\ StorageHas(scssDocuments, UriFile(PathX))
    /\ StorageHas(tsConfigs, fsPathToUri(ConfigRoot))
    /\ StorageGet(tsConfigs, fsPathToUri(ConfigRoot)).paths
          = << PathShorthand(<<"@", "lib", Sep>>, << <<"libs", Sep>> >>) >>
    /\ tsConfigsAssociations = <<>>
    /\ lastQuery.op = "links"
    /\ lastQuery.uri = UriFile(PathX)
    /\ lastQuery.text = "X1"
    /\ Len(lastQuery.result) = 1
    /\ lastQuery.result[1].target
          = <<Sep, "proj", Sep, "src", Sep, "@", "lib", Sep, "mixins", ".scss">>

-----------------------------------------------------------------------------
(* Properties of the completion provider (SpecCompletion) *)

\* the texts of x.scss without @use and without @import
TextsWithoutImports ==
    {t \in TextsOf(PathX) : \A k \in 1..Len(TextOf(t)) :
                                TextOf(t)[k].type \notin {"Use", "Import"}}

Marked(items) == {i \in 1..Len(items) : items[i].implicitly # NoLabel}

\* C10: for a document without @use and without @import, no completion item
\* carries the implicit label, whatever the context and the settings.
C10_NoMarkerWithoutImports ==
    \A t \in TextsWithoutImports : \A context \in ContextPool :
        \A completionSettings \in CompletionSettingsPool :
            Marked(doCompletionOn(scssDocuments, PathX, t, context,
                                  completionSettings).query.result) = {}

\* the last completion in x.scss, which holds no @use and no @import, has
\* offered variables without the label and functions with it
C10_Witness ==
    /\ lastQuery.op = "doCompletion"
    /\ lastQuery.text \in TextsWithoutImports
    /\ lastQuery.settings.implicitlyLabel # NoLabel
    /\ \E i \in 1..Len(lastQuery.result) :
          /\ lastQuery.result[i].kind = "variable"
          /\ lastQuery.result[i].implicitly = NoLabel
    /\ \E i \in Marked(lastQuery.result) : lastQuery.result[i].kind = "function"

\* the completion queries asked in x.scss
CompletionQueries ==
    (CompletionTexts \X ContextPool \X CompletionSettingsPool)
    \cup ({"X2"} \X ContextPool \X DisabledSettingsPool)
    \cup ({"X2"} \X ImportContextPool \X {CompletionSettings(NoLabel, TRUE, TRUE, TRUE)})

CompletionOf(q) == doCompletionOn(scssDocuments, PathX, q[1], q[2], q[3]).query

\* C24: a completion query never raises: whatever the document, the context,
\* the settings and the files on disk, it answers a list of items.
C24_NeverRaises ==
    \A q \in CompletionQueries : CompletionOf(q).outcome # Raised.kind

\* the last completion in x.scss, asked in the string of an @use whose
\* directory /proj/src/@lib does not exist, has raised instead of answering
C24_Witness ==
    /\ lastQuery.op = "doCompletion"
    /\ lastQuery.uri = UriFile(PathX)
    /\ lastQuery.context.input.present
    /\ ~lastQuery.context.comment
    /\ ~DirExists(PathDirname(resolveAliasedPath(lastQuery.context.input.fragment,
                                                 PathX, NoTsConfig)))
    /\ lastQuery.outcome = Raised.kind

\* a completion asked in the string of an @use whose directory exists
\* answers the files of the directory
C24_ListedWhenDirectoryExists ==
    \A q \in CompletionQueries :
        (/\ q[2].input.present
         /\ ~q[2].comment
         /\ q[2].input.fragment = <<"..", Sep, "sub", Sep>>
         /\ fileExists(PathY))
        => /\ CompletionOf(q).outcome = "value"
           /\ CompletionOf(q).result = <<ImportItem("file", <<"y">>)>>

\* the items of this kind carry the name of every symbol of the table
Offered(items, kind, table) ==
    \A i \in 1..Len(table) :
        \E j \in 1..Len(items) : items[j].kind = kind /\ items[j].label = table[i].name

OwnSymbols(q) == parseDocumentSymbols(UriFile(PathX), TextOf(q[1]))

\* C25: outside comments, every variable, mixin and function declared in the
\* current document is among the items of a completion whose context and
\* setting admit its category.
C25_OwnSymbolsOffered ==
    \A q \in CompletionQueries :
        (~q[2].comment /\ CompletionOf(q).outcome = "value")
        => /\ (q[3].suggestVariables /\ q[2].variable)
                 => Offered(CompletionOf(q).result, "variable", OwnSymbols(q).variables)
           /\ (q[3].suggestMixins /\ q[2].mixin)
                 => Offered(CompletionOf(q).result, "mixin", OwnSymbols(q).mixins)
           /\ (q[3].suggestFunctions /\ q[2].function)
                 => Offered(CompletionOf(q).result, "function", OwnSymbols(q).functions)

\* the last completion in x.scss, which declares the mixin n, was asked after
\* "@include " with mixins enabled while y.scss and mixins.scss are indexed:
\* it has offered mixins, and n is not among them
C25_Witness ==
    /\ lastQuery.op = "doCompletion"
    /\ lastQuery.text = "X2"
    /\ ~lastQuery.context.comment
    /\ lastQuery.context.mixin
    /\ lastQuery.settings.suggestMixins
    /\ StorageHas(scssDocuments, UriFile(PathX))
    /\ StorageHas(scssDocuments, UriFile(PathY))
    /\ StorageHas(scssDocuments, UriFile(PathM))
    /\ Len(lastQuery.result) > 0
    /\ \A j \in 1..Len(lastQuery.result) : lastQuery.result[j].label # "n"

\* outside comments, every symbol of the other indexed documents is among
\* the items of a completion whose context and setting admit its category
C25_OtherSymbolsOffered ==
    \A q \in CompletionQueries :
        \A i \in 1..Len(scssDocuments) :
            (/\ ~q[2].comment
             /\ CompletionOf(q).outcome = "value"
             /\ scssDocuments[i].key # UriFile(PathX))
            => /\ (q[3].suggestVariables /\ q[2].variable)
                     => Offered(CompletionOf(q).result, "variable",
                                scssDocuments[i].value.variables)
               /\ (q[3].suggestMixins /\ q[2].mixin)
                     => Offered(CompletionOf(q).result, "mixin",
                                scssDocuments[i].value.mixins)
               /\ (q[3].suggestFunctions /\ q[2].function)
                     => Offered(CompletionOf(q).result, "function",
                                scssDocuments[i].value.functions)

NoneOfKind(items, kind) == \A j \in 1..Len(items) : items[j].kind # kind

\* C26: a completion asked in a comment answers the empty list whatever the
\* other contexts are; outside comments a category whose setting is off, or
\* whose context check fails, contributes no item.
C26_Gating ==
    \A q \in CompletionQueries :
        /\ q[2].comment
              => /\ CompletionOf(q).outcome = "value"
                 /\ CompletionOf(q).result = <<>>
        /\ ~(q[3].suggestVariables /\ q[2].variable)
              => NoneOfKind(CompletionOf(q).result, "variable")
        /\ ~(q[3].suggestMixins /\ q[2].mixin)
              => NoneOfKind(CompletionOf(q).result, "mixin")
        /\ ~(q[3].suggestFunctions /\ q[2].function)
              => NoneOfKind(CompletionOf(q).result, "function")

\* the last completion was asked after "width: #{f", a variable and function
\* context, with the variables switched off, while y.scss with its variable
\* is indexed: it has offered the functions and no variable
C26_Witness ==
    /\ lastQuery.op = "doCompletion"
    /\ ~lastQuery.context.comment
    /\ lastQuery.context.variable
    /\ lastQuery.context.function
    /\ ~lastQuery.settings.suggestVariables
    /\ lastQuery.settings.suggestFunctions
    /\ StorageHas(scssDocuments, UriFile(PathY))
    /\ Len(StorageGet(scssDocuments, UriFile(PathY)).variables) > 0
    /\ \E j \in 1..Len(lastQuery.result) : lastQuery.result[j].kind = "function"
    /\ NoneOfKind(lastQuery.result, "variable")

\* the last completion was asked in a comment, after "// $", while y.scss
\* with its variable is indexed: it has offered nothing
C26_WitnessComment ==
    /\ lastQuery.op = "doCompletion"
    /\ lastQuery.context.comment
    /\ lastQuery.context.variable
    /\ lastQuery.settings.suggestVariables
    /\ StorageHas(scssDocuments, UriFile(PathY))
    /\ Len(StorageGet(scssDocuments, UriFile(PathY)).variables) > 0
    /\ lastQuery.result = <<>>

\* the indices of the @use statements that are children of the style sheet
UseIndices(text) == {i \in 1..Len(text) : text[i].type = "Use" /\ text[i].top}

\* the file is the target of an @use of the text
UsedBy(text, file) == \E i \in UseIndices(text) : uriToFsPath(text[i].target) = file

\* the end of the @use that comes last in the text
EndOfLastUse(text) ==
    LiteralEnd(text[CHOOSE i \in UseIndices(text) : \A j \in UseIndices(text) : j <= i])

\* C27: a variable item carries the edit that inserts an @use only when the
\* file that owns the variable is not the target of an @use of the document,
\* the document has no @import and has an @use; the edit is placed at the end
\* of the last @use.
C27_UseEditOnlyWhenNeeded ==
    \A q \in CompletionQueries :
        \A j \in 1..Len(CompletionOf(q).result) :
            LET item == CompletionOf(q).result[j]
                text == TextOf(q[1])
            IN  (item.kind = "variable" /\ item.useEdit # NoEdit)
                => /\ ~UsedBy(text, item.to)
                   /\ ~HasChild(text, "Import")
                   /\ UseIndices(text) # {}
                   /\ item.useEdit = UseEdit(EndOfLastUse(text))

\* the last completion in x.scss, which holds "@use '../libs/mixins'" and
\* "@use '../sub/y'" and no @import, has offered the variable $color of
\* mixins.scss with the edit that inserts an @use after the second @use
C27_Witness ==
    /\ lastQuery.op = "doCompletion"
    /\ lastQuery.text = "X4"
    /\ UsedBy(TextOf("X4"), PathM)
    /\ \E j \in 1..Len(lastQuery.result) :
          /\ lastQuery.result[j].kind = "variable"
          /\ lastQuery.result[j].label = "$color"
          /\ lastQuery.result[j].to = PathM
          /\ lastQuery.result[j].useEdit = UseEdit(Position(1, 9))

\* a variable item that carries the edit belongs to a document without
\* @import and with an @use, and the edit is at the end of the last @use
C27_EditAfterLastUse ==
    \A q \in CompletionQueries :
        \A j \in 1..Len(CompletionOf(q).result) :
            LET item == CompletionOf(q).result[j]
                text == TextOf(q[1])
            IN  (item.kind = "variable" /\ item.useEdit # NoEdit)
                => /\ ~HasChild(text, "Import")
                   /\ UseIndices(text) # {}
                   /\ item.useEdit = UseEdit(EndOfLastUse(text))

-----------------------------------------------------------------------------
(* Properties of the config registry and the associations *)

\* the documents of the Index
IndexedUris == {scssDocuments[i].key : i \in 1..Len(scssDocuments)}

\* the entries of the Index without the one of this document, in Map order
EntriesBut(docs, documentUri) == SelectSeq(docs, LAMBDA entry : entry.key # documentUri)

\* the path of the document lies below the directory
Below(uri, dir) == isDescendant(uriToFsPath(uri), dir)

\* import paths, one that begins with the alias of the configs and one that
\* does not
AliasedImports == { <<"@", "lib", Sep, "mixins">>, <<"..", Sep, "libs", Sep, "mixins">> }

\* the providers' resolution of an import of the document
ResolveFor(configs, associations, uri, import) ==
    resolveAliasedPath(import, uriToFsPath(uri),
                       getAssociatedTsConfig(configs, associations, uri))

PlainRelativeFor(uri, import) ==
    PathResolve(<<PathDirname(uriToFsPath(uri)), import>>)

\* /proj/sub/tsconfig.json is the only config there may be
NoOtherConfig ==
    /\ ~fileExists(ConfigRoot)
    /\ \A i \in 1..Len(tsConfigs) : tsConfigs[i].key = UriFile(ConfigSub)

RootForms == {ProjDir, workspaceRoot}

\* the step is the end of a call of deleteTsConfigFile with these arguments
\* (every such step records the call)
DeleteEnds(tsConfigPath, workspaceDir) ==
    /\ lastCall'.op = "delete"
    /\ lastCall'.path = tsConfigPath
    /\ lastCall'.workspaceDir = workspaceDir

\* C11: deleting /proj/sub/tsconfig.json when the workspace root is /proj and
\* there is no other config returns without raising and leaves every indexed
\* document under /proj/sub without an entry in the association map, its
\* imports resolved plain-relative.
C11_DeleteLeavesUnassociated ==
    /\ [](NoOtherConfig =>
             \A root \in RootForms : deleteTsConfigFileReturns(ConfigSub, root))
    /\ [][\A root \in RootForms :
             (/\ DeleteEnds(ConfigSub, root)
              /\ NoOtherConfig
              /\ deleteTsConfigFile(ConfigSub, root)) =>
                \A uri \in IndexedUris :
                   Below(uri, SubDir) =>
                      /\ ~StorageHas(tsConfigsAssociations', uri)
                      /\ \A import \in AliasedImports :
                            ResolveFor(tsConfigs', tsConfigsAssociations', uri, import)
                               = PlainRelativeFor(uri, import)]_vars

\* the part of C11 that the code keeps: the call returns, and the lookup of
\* the governing config of those documents finds none, so that their imports
\* resolve plain-relative
C11_PlainRelativeNoRaise ==
    /\ [](NoOtherConfig =>
             \A root \in RootForms : deleteTsConfigFileReturns(ConfigSub, root))
    /\ [][\A root \in RootForms :
             (/\ DeleteEnds(ConfigSub, root)
              /\ NoOtherConfig
              /\ deleteTsConfigFile(ConfigSub, root)) =>
                \A uri \in IndexedUris :
                   Below(uri, SubDir) =>
                      /\ getAssociatedTsConfig(tsConfigs', tsConfigsAssociations', uri)
                            = NoTsConfig
                      /\ \A import \in AliasedImports :
                            ResolveFor(tsConfigs', tsConfigsAssociations', uri, import)
                               = PlainRelativeFor(uri, import)]_vars

\* y.scss was associated with /proj/sub/tsconfig.json, the config has been
\* deleted with the server's workspace root, and the entry of y.scss is still
\* in the association map
C11_Witness ==
    /\ lastCall = Call("delete", ConfigSub, workspaceRoot)
    /\ NoOtherConfig
    /\ tsConfigs = <<>>
    /\ StorageHas(scssDocuments, UriFile(PathY))
    /\ StorageHas(tsConfigsAssociations, UriFile(PathY))
    /\ StorageGet(tsConfigsAssociations, UriFile(PathY)) = UriFile(ConfigSub)

\* C13: in every reachable state every config key stored in the association
\* map is a key of the config registry.
C13_AssociationsRegistered ==
    \A i \in 1..Len(tsConfigsAssociations) :
       StorageHas(tsConfigs, tsConfigsAssociations[i].value)

\* a deleted config is still the value of an association
C13_Witness ==
    /\ lastCall.op = "delete"
    /\ ~StorageHas(tsConfigs, fsPathToUri(lastCall.path))
    /\ \E i \in 1..Len(tsConfigsAssociations) :
          tsConfigsAssociations[i].value = fsPathToUri(lastCall.path)

\* the config of the nearest ancestor directory of a document of the
\* workspace, both configs being there
NearestConfigOf(uri) == IF Below(uri, SubDir) THEN ConfigSub ELSE ConfigRoot

OtherConfig(c) == IF c = ConfigRoot THEN ConfigSub ELSE ConfigRoot

\* C14: with /proj/tsconfig.json and /proj/sub/tsconfig.json on disk and the
\* scan of the workspace done, when the second of the two addTsConfigFile
\* calls of the discovery completes, in either order, every indexed document
\* is associated with the config of its nearest ancestor directory.
C14_NearestWhateverOrder ==
    [][\A c \in TsConfigPaths :
          (/\ fs = WorkspaceWithConfigs
           /\ scanStatus = "done"
           /\ StorageKeys(tsConfigs) = <<UriFile(OtherConfig(c))>>
           /\ addTsConfigFile(c)) =>
             \A uri \in IndexedUris :
                /\ StorageHas(tsConfigsAssociations', uri)
                /\ StorageGet(tsConfigsAssociations', uri) = UriFile(NearestConfigOf(uri))]_vars

\* both configs are registered, /proj/sub/tsconfig.json first, and y.scss is
\* associated with /proj/tsconfig.json
C14_Witness ==
    /\ fs = WorkspaceWithConfigs
    /\ scanStatus = "done"
    /\ StorageKeys(tsConfigs) = <<UriFile(ConfigSub), UriFile(ConfigRoot)>>
    /\ StorageHas(scssDocuments, UriFile(PathY))
    /\ StorageHas(tsConfigsAssociations, UriFile(PathY))
    /\ StorageGet(tsConfigsAssociations, UriFile(PathY)) = UriFile(ConfigRoot)

\* C15: after addTsConfigFile(c) the registry holds the parsed entry of c,
\* every document of the Index whose path lies below the directory of c is
\* associated with c, and the other documents keep their association.
C15_AddAssociatesDescendants ==
    [][\A c \in TsConfigPaths :
          addTsConfigFile(c) =>
             /\ StorageHas(tsConfigs', UriFile(c))
             /\ StorageGet(tsConfigs', UriFile(c)) = parseTsConfig(c, MaxExtends).value
             /\ \A uri \in IndexedUris :
                   IF Below(uri, PathDirname(c))
                      THEN /\ StorageHas(tsConfigsAssociations', uri)
                           /\ StorageGet(tsConfigsAssociations', uri) = UriFile(c)
                   ELSE /\ StorageHas(tsConfigsAssociations', uri)
                              <=> StorageHas(tsConfigsAssociations, uri)
                        /\ StorageHas(tsConfigsAssociations, uri) =>
                              StorageGet(tsConfigsAssociations', uri)
                                 = StorageGet(tsConfigsAssociations, uri)]_vars

\* x.scss, which is in /proj/src, is associated with /proj/sub/tsconfig.json
C15_Witness ==
    /\ StorageHas(tsConfigs, UriFile(ConfigSub))
    /\ StorageHas(scssDocuments, UriFile(PathX))
    /\ StorageHas(tsConfigsAssociations, UriFile(PathX))
    /\ StorageGet(tsConfigsAssociations, UriFile(PathX)) = UriFile(ConfigSub)

\* the nearest tsconfig.json on disk from dir upward to root, root included;
\* <<>> when there is none
RECURSIVE NearestConfigFrom(_, _)
NearestConfigFrom(dir, root) ==
    IF fileExists(PathJoin(dir, TsConfigName)) THEN PathJoin(dir, TsConfigName)
    ELSE IF dir = root \/ PathDirname(dir) = dir THEN <<>>
    ELSE NearestConfigFrom(PathDirname(dir), root)

\* C16: after deleteTsConfigFile(/proj/sub/tsconfig.json, /proj) the registry
\* does not hold the config, and every document that was associated with it
\* is associated with the nearest config from /proj (the parent of the
\* config's directory, here the workspace root itself) upward to the root, or
\* has no association when there is no such config.
C16_DeleteReassociates ==
    [][(DeleteEnds(ConfigSub, ProjDir) /\ deleteTsConfigFile(ConfigSub, ProjDir)) =>
          /\ ~StorageHas(tsConfigs', UriFile(ConfigSub))
          /\ \A uri \in IndexedUris :
                (/\ StorageHas(tsConfigsAssociations, uri)
                 /\ StorageGet(tsConfigsAssociations, uri) = UriFile(ConfigSub)) =>
                   LET nearest == NearestConfigFrom(PathDirname(PathDirname(ConfigSub)),
                                                    ProjDir)
                   IN  IF nearest = <<>> THEN ~StorageHas(tsConfigsAssociations', uri)
                       ELSE /\ StorageHas(tsConfigsAssociations', uri)
                            /\ StorageGet(tsConfigsAssociations', uri)
                                  = UriFile(nearest)]_vars

\* /proj/sub/tsconfig.json has been deleted with the root /proj while
\* /proj/tsconfig.json is on disk, and y.scss is still associated with the
\* deleted config
C16_Witness ==
    /\ lastCall = Call("delete", ConfigSub, ProjDir)
    /\ fileExists(ConfigRoot)
    /\ ~StorageHas(tsConfigs, UriFile(ConfigSub))
    /\ StorageHas(scssDocuments, UriFile(PathY))
    /\ StorageHas(tsConfigsAssociations, UriFile(PathY))
    /\ StorageGet(tsConfigsAssociations, UriFile(PathY)) = UriFile(ConfigSub)

\* the directory of the config is the workspace root or lies below it
InsideRoot(tsConfigPath, workspaceDir) ==
    \/ PathDirname(tsConfigPath) = uriToFsPath(workspaceDir)
    \/ isDescendant(PathDirname(tsConfigPath), uriToFsPath(workspaceDir))

\* C17: deleteTsConfigFile for a config whose directory is not inside the
\* workspace root returns without raising and leaves the association map as
\* it was.
C17_OutsideRootNoChange ==
    /\ [](\A call \in DeleteCalls :
             ~InsideRoot(call[1], call[2]) => deleteTsConfigFileReturns(call[1], call[2]))
    /\ [][\A call \in DeleteCalls :
             (/\ DeleteEnds(call[1], call[2])
              /\ ~InsideRoot(call[1], call[2])
              /\ deleteTsConfigFile(call[1], call[2])) =>
                tsConfigsAssociations' = tsConfigsAssociations]_vars

\* /proj/tsconfig.json, which had documents associated with it, has been
\* deleted with the workspace root /proj/sub
C17_Witness ==
    /\ lastCall = Call("delete", ConfigRoot, SubDir)
    /\ ~InsideRoot(ConfigRoot, SubDir)
    /\ ~StorageHas(tsConfigs, UriFile(ConfigRoot))
    /\ \E i \in 1..Len(tsConfigsAssociations) :
          tsConfigsAssociations[i].value = UriFile(ConfigRoot)

\* C18: updateTsConfigFile(c) for a registered config whose file can be
\* parsed replaces the alias table of c by the parsed one and nothing else:
\* the Index, the keys of the registry, the other configs, the file path of c
\* and the association map stay, and the imports of the documents associated
\* with c resolve with the new table.
C18_UpdateReplacesAliasTable ==
    [][\A c \in TsConfigPaths :
          (/\ lastCall'.op = "update"
           /\ StorageHas(tsConfigs, UriFile(c))
           /\ updateTsConfigFile(c)) =>
             LET newTsConfig == parseTsConfig(c, MaxExtends).value
             IN  /\ scssDocuments' = scssDocuments
                 /\ tsConfigsAssociations' = tsConfigsAssociations
                 /\ StorageKeys(tsConfigs') = StorageKeys(tsConfigs)
                 /\ \A i \in 1..Len(tsConfigs) :
                       IF tsConfigs[i].key = UriFile(c)
                          THEN /\ tsConfigs'[i].value.filepath = tsConfigs[i].value.filepath
                               /\ tsConfigs'[i].value.hasPaths = newTsConfig.hasPaths
                               /\ tsConfigs'[i].value.paths = newTsConfig.paths
                       ELSE tsConfigs'[i] = tsConfigs[i]
                 /\ \A uri \in IndexedUris :
                       (/\ StorageHas(tsConfigsAssociations, uri)
                        /\ StorageGet(tsConfigsAssociations, uri) = UriFile(c)) =>
                          \A import \in AliasedImports :
                             ResolveFor(tsConfigs', tsConfigsAssociations', uri, import)
                                = resolveAliasedPath(import, uriToFsPath(uri),
                                                     TsConfig(c, newTsConfig.hasPaths,
                                                              newTsConfig.paths))]_vars

\* /proj/tsconfig.json was edited on disk, the update replaced its table, and
\* a link of x.scss, which is associated with it, now leads into /proj/vendor
C18_Witness ==
    /\ lastCall = Call("update", ConfigRoot, <<>>)
    /\ fs[ConfigRoot] = "CVendor"
    /\ StorageHas(tsConfigs, UriFile(ConfigRoot))
    /\ StorageGet(tsConfigs, UriFile(ConfigRoot)).paths
          = parseTsConfig(ConfigRoot, MaxExtends).value.paths
    /\ StorageHas(tsConfigsAssociations, UriFile(PathX))
    /\ StorageGet(tsConfigsAssociations, UriFile(PathX)) = UriFile(ConfigRoot)
    /\ lastQuery # NoQuery
    /\ lastQuery.result[1].target
          = <<Sep, "proj", Sep, "vendor", Sep, "mixins", ".scss">>

\* the file of the config can be read and JSON.parse throws on its contents
Malformed(c) == ~readFileFails(c) /\ ~ConfigTextOf(FsState(c)).valid

\* C23: adding or updating a config whose JSON is malformed does not fail:
\* parseTsConfig returns a config without alias table, addTsConfigFile stores
\* it, updateTsConfigFile stores it in the place of a registered one, and the
\* imports of every document associated with it resolve as plain relative
\* paths.
C23_MalformedConfigNoAliases ==
    /\ [](\A c \in TsConfigPaths :
             Malformed(c) =>
                parseTsConfig(c, MaxExtends) = Returned(TsConfig(c, FALSE, <<>>)))
    /\ [][\A c \in TsConfigPaths :
             (/\ Malformed(c)
              /\ \/ addTsConfigFile(c)
                 \/ StorageHas(tsConfigs, UriFile(c)) /\ updateTsConfigFile(c)) =>
                /\ StorageHas(tsConfigs', UriFile(c))
                /\ ~StorageGet(tsConfigs', UriFile(c)).hasPaths
                /\ \A uri \in IndexedUris :
                      (/\ StorageHas(tsConfigsAssociations', uri)
                       /\ StorageGet(tsConfigsAssociations', uri) = UriFile(c)) =>
                         \A import \in AliasedImports :
                            ResolveFor(tsConfigs', tsConfigsAssociations', uri, import)
                               = PlainRelativeFor(uri, import)]_vars

\* /proj/tsconfig.json, registered with its alias table, was overwritten by
\* malformed JSON and updated; the aliased link of x.scss, which is associated
\* with it, now leads to /proj/src/@lib/mixins.scss
C23_Witness ==
    /\ lastCall = Call("update", ConfigRoot, <<>>)
    /\ Malformed(ConfigRoot)
    /\ StorageHas(tsConfigs, UriFile(ConfigRoot))
    /\ ~StorageGet(tsConfigs, UriFile(ConfigRoot)).hasPaths
    /\ StorageHas(tsConfigsAssociations, UriFile(PathX))
    /\ StorageGet(tsConfigsAssociations, UriFile(PathX)) = UriFile(ConfigRoot)
    /\ lastQuery # NoQuery
    /\ lastQuery.result[1].target
          = <<Sep, "proj", Sep, "src", Sep, "@", "lib", Sep, "mixins", ".scss">>

\* the file of the config c is valid JSON that extends, by a relative path, a
\* file that is valid JSON too
ExtensionOf(c) == PathJoin(PathDirname(c), ConfigTextOf(FsState(c)).extends)

Extends(c) ==
    /\ ~readFileFails(c)
    /\ ConfigTextOf(FsState(c)).valid
    /\ Len(ConfigTextOf(FsState(c)).extends) > 0
    /\ ConfigTextOf(FsState(c)).extends[1] \in {".", ".."}
    /\ ~readFileFails(ExtensionOf(c))
    /\ ConfigTextOf(FsState(ExtensionOf(c))).valid

\* the alias entries the file of the config c holds itself, in their order
OwnAliases(c) ==
    [i \in 1..Len(ConfigTextOf(FsState(c)).paths) |->
        StripShorthand(ConfigTextOf(FsState(c)).paths[i])]

Matching(aliases, import) == {i \in 1..Len(aliases) : StartsWith(import, aliases[i].alias)}

\* the path the import resolves to when the first of the aliases that match
\* it is applied below the directory of the config c
ResolvedBy(aliases, c, import) ==
    LET first == Least(Matching(aliases, import))
    IN  PathResolve(<<PathDirname(c),
                      aliases[first].paths[1]
                         \o Drop(import, Len(aliases[first].alias))>>)

\* C32: a call that adds or updates a config that extends another one stores
\* the child's alias entries followed by the entries of the extended config,
\* and an import matched by an alias of both resolves by the child's alias.
C32_ChildAliasesFirst ==
    [][\A c \in TsConfigPaths :
          (/\ StorageHas(tsConfigs', UriFile(c))
           /\ Extends(c)
           /\ addTsConfigFile(c) \/ updateTsConfigFile(c)) =>
             LET stored == StorageGet(tsConfigs', UriFile(c))
             IN  /\ stored.hasPaths
                 /\ stored.paths = OwnAliases(c) \o OwnAliases(ExtensionOf(c))
                 /\ \A import \in AliasedImports :
                       (/\ Matching(OwnAliases(c), import) # {}
                        /\ Matching(OwnAliases(ExtensionOf(c)), import) # {})
                       => resolveAliasedPath(import, PathY, stored)
                             = ResolvedBy(OwnAliases(c), c, import)]_vars

\* /proj/sub/tsconfig.json, which maps "@lib/*" to "vendor/*" and extends
\* /proj/tsconfig.json, which maps "@lib/*" to "libs/", is registered with
\* both entries, its own first, and "@lib/mixins" resolves into /proj/sub/vendor
C32_Witness ==
    /\ fs[ConfigSub] = "CSub"
    /\ fs[ConfigRoot] = "CLib"
    /\ StorageHas(tsConfigs, UriFile(ConfigSub))
    /\ StorageGet(tsConfigs, UriFile(ConfigSub)).paths
          = << PathShorthand(<<"@", "lib", Sep>>, << <<"vendor", Sep>> >>),
               PathShorthand(<<"@", "lib", Sep>>, << <<"libs", Sep>> >>) >>
    /\ resolveAliasedPath(<<"@", "lib", Sep, "mixins">>, PathY,
                          StorageGet(tsConfigs, UriFile(ConfigSub)))
          = <<Sep, "proj", Sep, "sub", Sep, "vendor", Sep, "mixins">>

\* C36: whenever no pass is running, every document of the Index whose path
\* lies below the directory of a registered config has an association,
\* whether it was indexed before or after the config was added.
C36_ScannedLaterAssociated ==
    scanStatus # "running"
    => \A uri \in IndexedUris : \A c \in TsConfigPaths :
          (StorageHas(tsConfigs, UriFile(c)) /\ Below(uri, PathDirname(c)))
          => StorageHas(tsConfigsAssociations, uri)

\* /proj/tsconfig.json is registered, a pass has then indexed x.scss, which
\* lies below /proj, and no document has an association
C36_Witness ==
    /\ scanStatus = "done"
    /\ lastCall = NoCall
    /\ fsChanges = 0
    /\ \E i \in 1..Len(scanLog) : scanLog[i] = Visit(PathX, "added")
    /\ StorageHas(tsConfigs, UriFile(ConfigRoot))
    /\ StorageHas(scssDocuments, UriFile(PathX))
    /\ Below(UriFile(PathX), PathDirname(ConfigRoot))
    /\ tsConfigsAssociations = <<>>

\* adding /proj/tsconfig.json associates the documents that are in the Index
\* at that moment, and a step of a pass leaves the association map as it is
C36_AssociatedOnAddOnly ==
    [][/\ addTsConfigFile(ConfigRoot)
          => \A uri \in IndexedUris : StorageHas(tsConfigsAssociations', uri)
       /\ ScanStep => tsConfigsAssociations' = tsConfigsAssociations]_vars

\* C37: in every state each key of the association map is a key of the
\* Index: a document that leaves the Index leaves the association map too.
C37_AssociatedAreIndexed ==
    \A i \in 1..Len(tsConfigsAssociations) :
        StorageHas(scssDocuments, tsConfigsAssociations[i].key)

\* x.scss was deleted on disk and the pass for its event has removed its
\* entry: its association with /proj/tsconfig.json is still in the map
C37_Witness ==
    /\ ~fileExists(PathX)
    /\ \E i \in 1..Len(scanLog) : scanLog[i] = Visit(PathX, "removed")
    /\ ~StorageHas(scssDocuments, UriFile(PathX))
    /\ StorageHas(tsConfigsAssociations, UriFile(PathX))
    /\ StorageGet(tsConfigsAssociations, UriFile(PathX)) = UriFile(ConfigRoot)

\* C30: the pass that handles the event of a deleted file removes the entry of
\* that path and nothing else: the entries of the other documents, the
\* registry and the association map stay, no path is added to the pass, and
\* the pass of a single file ends there.
C30_DeleteRemovesOnlyThatEntry ==
    [][(/\ scanStatus = "running"
        /\ ~fileExists(PathNormalize(scanIterator[scanIndex]))
        /\ ScanStep) =>
          LET uri == UriFile(PathNormalize(scanIterator[scanIndex]))
          IN  /\ ~StorageHas(scssDocuments', uri)
              /\ EntriesBut(scssDocuments', uri) = EntriesBut(scssDocuments, uri)
              /\ tsConfigs' = tsConfigs
              /\ tsConfigsAssociations' = tsConfigsAssociations
              /\ scanIterator' = scanIterator
              /\ Len(scanIterator) = 1 => scanStatus' = "done"]_vars

\* x.scss was deleted and its event handled: its entry is gone, y.scss, which
\* imports it, is still indexed and was not visited, and a config is registered
\* and associated
C30_Witness ==
    /\ scanStatus = "done"
    /\ scanFiles = <<PathX>>
    /\ scanLog = <<Visit(PathX, "removed")>>
    /\ ~StorageHas(scssDocuments, UriFile(PathX))
    /\ StorageHas(scssDocuments, UriFile(PathY))
    /\ PathX \in StaticImportsOf(PathY)
    /\ Len(tsConfigs) > 0
    /\ Len(tsConfigsAssociations) > 0

-----------------------------------------------------------------------------
(* Properties of repeated scans *)

\* the storage was cleared while y.scss was associated: the Index and the
\* registry are empty and the association of y.scss is still in the map
C37_WitnessClear ==
    /\ lastCall.op = "clear"
    /\ scssDocuments = <<>>
    /\ tsConfigs = <<>>
    /\ StorageHas(tsConfigsAssociations, UriFile(PathY))

\* C12: when a pass has ended and no file has changed since it began, scanning
\* the same files again leaves the Index as it is: the same keys in the same
\* order, each with the same symbol table.
C12_RescanIdempotent ==
    (scanStatus = "done" /\ fsStable) =>
        LET again == scanScssFilesOn(scssDocuments, SetOf(scanFiles), 1,
                                     settings.scanImportedFiles)
        IN  /\ ~again.rejected
            /\ again.scssDocuments = scssDocuments

\* a pass over files that were in the Index already has ended, no file having
\* changed at all
C12_Witness ==
    /\ scanStatus = "done"
    /\ fsStable
    /\ fsChanges = 0
    /\ Len(scssDocuments) >= 2
    /\ Len(scanLog) >= 2
    /\ \A i \in 1..Len(scanLog) : scanLog[i].outcome = "replaced"

-----------------------------------------------------------------------------
(* Properties of the links of a document *)

\* the statements of the text that are children of the style sheet and are
\* an @use, in the order of the text
TopLevelUses(text) == SelectSeq(text, LAMBDA stmt : stmt.type = "Use" /\ stmt.top)

\* the link queries of the specification: a document and the text it holds
LinkQueries ==
    {<<PathX, "X3">>} \cup UNION {{<<p, t>> : t \in TextsOf(p)} : p \in ScssPaths}

-----------------------------------------------------------------------------
(* Properties of the providers side by side (SpecQueries) *)

\* C21: a query changes at most the Index entry of its own document:
\* goDefinition and doCompletion leave the entries of the other documents, the
\* registry and the association map as they were, and links changes none of
\* the three Maps.
C21_QueryTouchesOwnEntryOnly ==
    [][/\ \A d \in OpenDocuments :
            (\/ \E k \in 1..Len(TextOf(d[2])) : goDefinition(d[1], d[2], k)
             \/ \E context \in ContextPool :
                   doCompletion(d[1], d[2], context,
                                CompletionSettings(NoLabel, TRUE, TRUE, TRUE))) =>
               /\ EntriesBut(scssDocuments', UriFile(d[1]))
                     = EntriesBut(scssDocuments, UriFile(d[1]))
               /\ tsConfigs' = tsConfigs
               /\ tsConfigsAssociations' = tsConfigsAssociations
       /\ \A d \in OpenDocuments :
            links(d[1], d[2]) => UNCHANGED storageVars]_vars

\* a definition query in x.scss has stored the text the editor holds, which
\* differs from the one scanned from disk, while y.scss is indexed, the root
\* config is registered and a document is associated with it
C21_Witness ==
    /\ lastQuery # NoQuery
    /\ lastQuery.op = "goDefinition"
    /\ lastQuery.text = "X2"
    /\ lastQuery.identifier.kind = "identifier"
    /\ StorageHas(scssDocuments, UriFile(PathX))
    /\ StorageGet(scssDocuments, UriFile(PathX))
          = parseDocumentSymbols(UriFile(PathX), TextOf("X2"))
    /\ StorageHas(scssDocuments, UriFile(PathY))
    /\ StorageHas(tsConfigs, UriFile(ConfigRoot))
    /\ Len(tsConfigsAssociations) > 0

\* the Index holds for the document what its text parses to
Fresh(docs, d) ==
    /\ StorageHas(docs, UriFile(d[1]))
    /\ StorageGet(docs, UriFile(d[1])) = parseDocumentSymbols(UriFile(d[1]), TextOf(d[2]))

\* C34: after a definition, completion or links query for a document has
\* returned, whatever its answer, the Index entry of the document is the
\* symbol table of the text the document holds.
C34_QueryWritesBack ==
    [][\A d \in OpenDocuments :
          (\/ \E k \in 1..Len(TextOf(d[2])) : goDefinition(d[1], d[2], k)
           \/ \E context \in ContextPool :
                 doCompletion(d[1], d[2], context,
                              CompletionSettings(NoLabel, TRUE, TRUE, TRUE))
           \/ links(d[1], d[2]))
          => Fresh(scssDocuments', d)]_vars

\* y.scss was scanned from disk and the last query, links on the text the
\* editor holds, which differs, has returned a link: the entry of y.scss is
\* still the scanned one
C34_Witness ==
    /\ lastQuery.op = "links"
    /\ lastQuery.uri = UriFile(PathY)
    /\ lastQuery.text = "Y2"
    /\ Len(lastQuery.result) > 0
    /\ StorageHas(scssDocuments, UriFile(PathY))
    /\ StorageGet(scssDocuments, UriFile(PathY))
          = [parseDocumentSymbols(UriFile(PathY), TextOf("Y1")) EXCEPT !.filepath = PathY]
    /\ ~Fresh(scssDocuments, <<PathY, "Y2">>)

\* the last query, a definition query in x.scss with the cursor on the
\* declaration of $color, has answered none and the entry of x.scss is still
\* the scanned one
C34_WitnessDefinition ==
    /\ lastQuery.op = "goDefinition"
    /\ lastQuery.uri = UriFile(PathX)
    /\ lastQuery.text = "X2"
    /\ lastQuery.identifier = NoIdentifier
    /\ lastQuery.result = NullResult
    /\ StorageHas(scssDocuments, UriFile(PathX))
    /\ ~Fresh(scssDocuments, <<PathX, "X2">>)

\* a completion query, and a definition query that has classified the node
\* under the cursor, leave the symbol table of the document's text in the
\* Index
C34_WrittenBackWhenLookedUp ==
    [][\A d \in OpenDocuments :
          (\/ \E k \in 1..Len(TextOf(d[2])) :
                 /\ ClassifyNode(NodeAt(TextOf(d[2]), k)).kind = "identifier"
                 /\ goDefinition(d[1], d[2], k)
           \/ \E context \in ContextPool :
                 doCompletion(d[1], d[2], context,
                              CompletionSettings(NoLabel, TRUE, TRUE, TRUE)))
          => Fresh(scssDocuments', d)]_vars

-----------------------------------------------------------------------------
(* Properties of the watcher's events *)

\* a Map as the set of its entries
AsMap(m) == {m[i] : i \in 1..Len(m)}

\* the storage after each event of the batch has been applied from beginning
\* to end, one after the other, in the order of the batch
RECURSIVE ApplyEvents(_, _)
ApplyEvents(storage, changes) ==
    IF Len(changes) = 0 THEN storage
    ELSE LET file == Head(changes)
             path == uriToFsPath(file.uri)
             after ==
                 IF IsTsConfigChange(file)
                    THEN (IF file.type = "Created" THEN addTsConfigFileOn(storage, path)
                          ELSE IF file.type = "Changed"
                             THEN updateTsConfigFileOn(storage, path)
                          ELSE deleteTsConfigFileOn(storage, path, workspaceRoot))
                 ELSE [storage EXCEPT
                          !.scssDocuments =
                              scanScssFilesOn(@, <<path>>, 1,
                                              settings.scanImportedFiles).scssDocuments]
         IN  ApplyEvents(after, Tail(changes))

\* the batch arrived when nothing was in flight, and every call it started
\* has ended
BatchDone ==
    /\ delivered.kind = "batch"
    /\ delivered.quiet
    /\ configOps = <<>>
    /\ scanStatus = "done"

\* C19: when the calls started for a batch of events have all ended, the
\* Index and the config registry hold what applying the events one at a
\* time, each to its end, in the delivered order would leave.
C19_EventsInDeliveredOrder ==
    BatchDone =>
        LET expected == ApplyEvents(delivered.storage, delivered.changes)
        IN  /\ AsMap(scssDocuments) = AsMap(expected.scssDocuments)
            /\ AsMap(tsConfigs) = AsMap(expected.tsConfigs)

\* /proj/tsconfig.json was reported Created and then Deleted in one batch,
\* every call has ended, and the registry holds the config
C19_Witness ==
    /\ BatchDone
    /\ delivered.changes = << FileEvent(UriFile(ConfigRoot), "Created"),
                              FileEvent(UriFile(ConfigRoot), "Deleted") >>
    /\ ~StorageHas(delivered.storage.tsConfigs, UriFile(ConfigRoot))
    /\ StorageHas(tsConfigs, UriFile(ConfigRoot))

\* C20: while a pass of scanScssFiles is suspended no step changes the config
\* registry or the association map, and while a config call is suspended no
\* step of another operation changes the storage.
C20_OneOperationAtATime ==
    [][/\ scanStatus = "running" => UNCHANGED <<tsConfigs, tsConfigsAssociations>>
       /\ (configOps # <<>> /\ configOps' = configOps) => UNCHANGED storageVars]_vars

\* a pass is suspended at its first file access, and the addTsConfigFile call
\* that the same batch started has meanwhile registered the config
C20_Witness ==
    /\ delivered.kind = "batch"
    /\ delivered.quiet
    /\ scanStatus = "running"
    /\ scanIndex = 1
    /\ configOps = <<>>
    /\ \E c \in TsConfigPaths :
          /\ \E i \in 1..Len(delivered.changes) :
                delivered.changes[i] = FileEvent(UriFile(c), "Created")
          /\ ~StorageHas(delivered.storage.tsConfigs, UriFile(c))
          /\ StorageHas(tsConfigs, UriFile(c))

-----------------------------------------------------------------------------
(* Properties of findFileInParents (SpecParents) *)

\* the directory is the limit or lies below it
WithinLimit(dir, limit) == PathRelative(limit, dir) = <<>> \/ isDescendant(dir, limit)

\* the loop is at a directory that is its own parent, is not the limit and
\* holds no file of the name: every further pass of the loop leaves dir as it
\* is, and the call never returns
Spinning ==
    /\ parents.outcome = Running
    /\ parents.dir # parents.limit
    /\ ~fileExists(PathJoin(parents.dir, parents.filename))
    /\ PathDirname(parents.dir) = parents.dir

\* C38: findFileInParents terminates for every start directory and every limit
\* (the loop never comes to a directory where it stays for ever), and every
\* directory it looks into is the limit or lies below it.
C38_TerminatesWithinLimit ==
    /\ ~Spinning
    /\ \A dir \in parents.inspected : WithinLimit(dir, parents.limit)

\* the call started in /proj/sub with the limit "/proj/" on a disk without
\* configs: it has looked into /proj/sub, /proj and /, and stays at / for ever
C38_Witness ==
    /\ Spinning
    /\ parents.start = SubDir
    /\ parents.limit = ProjDir \o <<Sep>>
    /\ parents.inspected = {SubDir, ProjDir, <<Sep>>}

\* the same for the limit "/proj/src/..", which names /proj too
C38_WitnessNotNormalized ==
    /\ Spinning
    /\ parents.start = SubDir
    /\ parents.limit = <<Sep, "proj", Sep, "src", Sep, "..">>
    /\ <<Sep>> \in parents.inspected

\* with a limit that is a normalized path the call ends, and every directory
\* it looks into lies below the limit
C38_NormalizedLimit ==
    parents.limit \in {ProjDir, SubDir, <<Sep>>}
       => /\ ~Spinning
          /\ \A dir \in parents.inspected : isDescendant(dir, parents.limit)

\* with the URI the server hands over the call returns before its loop
C38_UriLimit ==
    (parents.outcome # NotCalled /\ parents.limit = workspaceRoot)
       => parents.outcome = Returned(<<>>) /\ parents.inspected = {}

\* the call with the limit /proj has looked into /proj/sub/deep and /proj/sub
\* and has returned the config of /proj/sub
C38_WitnessNormalized ==
    /\ parents.start = DeepDir
    /\ parents.limit = ProjDir
    /\ parents.inspected = {DeepDir, SubDir}
    /\ parents.outcome = Returned(ConfigSub)

-----------------------------------------------------------------------------
(* Properties of the extends chain of parseTsConfig (SpecExtends) *)

\* the chain of recursive calls has come back to a file it was called on
\* before: the disk does not change, so it comes back again and again
Revisits ==
    \E i, j \in 1..Len(parseChain) : i < j /\ parseChain[i] = parseChain[j]

\* C39: parseTsConfig terminates for every extends graph: the chain of its
\* recursive calls never comes back to a file it has been called on, so the
\* suspended addTsConfigFile or updateTsConfigFile completes.
C39_ParsingEnds == ~Revisits

\* addTsConfigFile is suspended on the config that extends itself, and
\* parseTsConfig has called itself on the same file
C39_Witness ==
    /\ configOps = <<ConfigOp("add", ConfigRoot)>>
    /\ fs[ConfigRoot] = "CSelf"
    /\ parseChain = <<ConfigRoot, ConfigRoot>>

\* updateTsConfigFile is suspended on /proj/sub/tsconfig.json, which extends
\* /proj/tsconfig.json, which extends /proj/sub/tsconfig.json
C39_WitnessMutual ==
    /\ configOps = <<ConfigOp("update", ConfigSub)>>
    /\ fs[ConfigRoot] = "CDown"
    /\ fs[ConfigSub] = "CSub"
    /\ parseChain = <<ConfigSub, ConfigRoot, ConfigSub>>

\* the chain comes back to a file exactly when parseTsConfig, taken as a
\* function of the disk, has no result; on every other disk the call ends
C39_EndsWithoutCycle ==
    /\ Revisits => parseTsConfig(parseChain[1], MaxExtends) = Diverges
    /\ (configOps # <<>> /\ parseTsConfig(parseChain[1], MaxExtends) # Diverges)
          => Len(parseChain) <= 2

\* addTsConfigFile on /proj/sub/tsconfig.json, which extends the plain config
\* of /proj, has ended and has registered the config
C39_WitnessEnded ==
    /\ configOps = <<>>
    /\ fs[ConfigRoot] = "CLib"
    /\ fs[ConfigSub] = "CSub"
    /\ StorageHas(tsConfigs, UriFile(ConfigSub))

====
